---------------------------- MODULE Spec2Model ----------------------------
(***************************************************************************)
(* NeuraDB (src/src/vector-store.ts, class NeuraDB): an in-memory document *)
(* table keyed by id, with embeddings optionally generated by an external  *)
(* embedding provider.  The state is the table (a Map, kept here as the    *)
(* sequence of its values in insertion order), the store configuration,    *)
(* the in-flight and returned calls of each caller, and the clock.         *)
(*                                                                         *)
(* An async method is a sequence of steps: the step that runs it up to     *)
(* its first await of the provider, one step per provider answer, and the  *)
(* step in which the caller takes the returned value.  The cooperative     *)
(* batchDelay pause touches neither the table nor the provider, so it is   *)
(* recorded as an event in the step that precedes the next provider call.  *)
(***************************************************************************)
EXTENDS Integers, Sequences, FiniteSets, TLC

VARIABLES
    documents,  \* the Map's values, in insertion order
    config,     \* openai, embeddingModel, defaultBatchSize, batchDelay
    calls,      \* per caller: idle, awaiting the provider, or returned
    clock       \* the value of new Date()

vars == <<documents, config, calls, clock>>

-----------------------------------------------------------------------------
(* Optional values (undefined / null in the source). *)

None == <<>>
Some(v) == <<v>>
IsSome(o) == Len(o) = 1
Get(o) == o[1]
OrElse(o, d) == IF IsSome(o) THEN Get(o) ELSE d

Min(S) == CHOOSE x \in S : \A y \in S : x <= y

(* A number that isFinite() rejects (NaN, Infinity). *)
NonFinite == 99

isFinite(val) == val # NonFinite

DefaultBatchSize == 100
DefaultBatchDelay == 1000
DefaultEmbeddingModel == "text-embedding-3-small"
DefaultLimit == 10
DefaultPageSize == 10

-----------------------------------------------------------------------------
(* Errors: the message stem of the thrown Error and the values it reports. *)

NoError ==
    [msg |-> "", index |-> -1, other |-> -1, id |-> "", got |-> -1,
     expected |-> -1, cause |-> ""]

Error(msg) == [NoError EXCEPT !.msg = msg]

IsError(e) == e.msg # ""

FirstError(errs) ==
    IF \E i \in DOMAIN errs : IsError(errs[i])
    THEN errs[Min({i \in DOMAIN errs : IsError(errs[i])})]
    ELSE NoError

-----------------------------------------------------------------------------
(* The Map<string, VectorDocument>. *)

has(table, id) == \E i \in DOMAIN table : table[i].id = id

indexOf(table, id) == CHOOSE i \in DOMAIN table : table[i].id = id

get(table, id) == IF has(table, id) THEN Some(table[indexOf(table, id)]) ELSE None

set_appends(table, doc) == Append(table, doc)

(* Map.set: a present key keeps its place, a new key goes last. *)
set(table, doc) ==
    IF has(table, doc.id)
    THEN [table EXCEPT ![indexOf(table, doc.id)] = doc]
    ELSE Append(table, doc)

(* Map.delete *)
delete(table, id) ==
    IF has(table, id)
    THEN LET k == indexOf(table, id)
         IN SubSeq(table, 1, k - 1) \o SubSeq(table, k + 1, Len(table))
    ELSE table

(* getDocument(id) and hasDocument(id) *)
(* size(): this.documents.size *)
size(table) == Len(table)

getDocument(table, id) == get(table, id)
hasDocument(table, id) == has(table, id)

getEmbeddingDimensions(table) ==
    IF Len(table) = 0 THEN None ELSE Some(Len(table[1].embedding))

validateEmbeddingDimensions_skip(table, embedding) == TRUE

validateEmbeddingDimensions(table, embedding) ==
    LET expectedDim == getEmbeddingDimensions(table)
    IN IF ~IsSome(expectedDim) THEN TRUE
       ELSE Len(embedding) = Get(expectedDim)

hasInvalidValues(embedding) ==
    \E k \in DOMAIN embedding : ~isFinite(embedding[k])

(* validateDocument: the error it throws, NoError when it returns true. *)
validateDocument(document) ==
    IF document.id = "" THEN Error("Document must have an ID")
    ELSE IF ~IsSome(document.embedding) \/ Len(Get(document.embedding)) = 0
    THEN Error("Document must have a valid embedding")
    ELSE IF hasInvalidValues(Get(document.embedding))
    THEN Error("All embedding values must be finite numbers")
    ELSE NoError

DimensionError_swapped(msg, got, table) ==
    [Error(msg) EXCEPT !.got = OrElse(getEmbeddingDimensions(table), -1),
                       !.expected = got]

DimensionError(msg, got, table) ==
    [Error(msg) EXCEPT !.got = got,
                       !.expected = OrElse(getEmbeddingDimensions(table), -1)]

withTimestamps_noMetadata(doc, embedding, now) ==
    [id |-> doc.id, content |-> doc.content, embedding |-> embedding,
     metadata |-> None,
     createdAt |-> OrElse(doc.createdAt, now), updatedAt |-> now]

(* { ...doc, createdAt: doc.createdAt || now, updatedAt: now } *)
withTimestamps(doc, embedding, now) ==
    [id |-> doc.id, content |-> doc.content, embedding |-> embedding,
     metadata |-> doc.metadata,
     createdAt |-> OrElse(doc.createdAt, now), updatedAt |-> now]

-----------------------------------------------------------------------------
(* Array helpers. *)

Max2(a, b) == IF a >= b THEN a ELSE b
Min2(a, b) == IF a <= b THEN a ELSE b

(* Array.prototype.slice(start, end): 0-based, end exclusive, a negative    *)
(* index counts from the end, both are clamped to the array.                *)
slice(array, start, end) ==
    LET len == Len(array)
        from == IF start < 0 THEN Max2(len + start, 0) ELSE Min2(start, len)
        to == IF end < 0 THEN Max2(len + end, 0) ELSE Min2(end, len)
    IN SubSeq(array, from + 1, to)

RECURSIVE chunkFrom(_, _, _)
chunkFrom(array, i, chunkSize) ==
    IF i < Len(array)
    THEN <<slice(array, i, i + chunkSize)>> \o chunkFrom(array, i + chunkSize, chunkSize)
    ELSE <<>>

chunkArray_tooWide(array, chunkSize) == chunkFrom(array, 0, chunkSize + 1)

(* for (let i = 0; i < array.length; i += chunkSize) chunks.push(slice)     *)
(* (chunkSize > 0: with chunkSize <= 0 the loop does not end)               *)
chunkArray(array, chunkSize) == chunkFrom(array, 0, chunkSize)

(* response.data.sort((a, b) => a.index - b.index): a stable sort. *)
RECURSIVE insertByIndex(_, _)
insertByIndex(sorted, item) ==
    IF Len(sorted) = 0 THEN <<item>>
    ELSE IF sorted[Len(sorted)].index <= item.index THEN Append(sorted, item)
    ELSE Append(insertByIndex(SubSeq(sorted, 1, Len(sorted) - 1), item),
                sorted[Len(sorted)])

RECURSIVE sortFrom(_, _)
sortFrom(data, k) ==
    IF k = 0 THEN <<>> ELSE insertByIndex(sortFrom(data, k - 1), data[k])

sortByIndex_unsorted(data) == data

sortByIndex(data) == sortFrom(data, Len(data))

(* response.data.sort(...).map(item => item.embedding) *)
batchEmbeddingsOf(data) ==
    LET sorted == sortByIndex(data)
    IN [k \in DOMAIN sorted |-> sorted[k].embedding]

-----------------------------------------------------------------------------
(* What a call did that its caller or the provider can observe, in order:   *)
(* "embed" (openai.embeddings.create with these texts), "response" (what    *)
(* the provider answered), "progress" (onProgress(processed, total)) and    *)
(* "delay" (this.delay(ms)).                                                *)

Event(type) ==
    [type |-> type, texts |-> <<>>, data |-> <<>>, processed |-> 0,
     total |-> 0, ms |-> 0]

EmbedEvent(texts) == [Event("embed") EXCEPT !.texts = texts]
ResponseEvent(data) == [Event("response") EXCEPT !.data = data]
ProgressEvent(processed, total) ==
    [Event("progress") EXCEPT !.processed = processed, !.total = total]
DelayEvent(ms) == [Event("delay") EXCEPT !.ms = ms]

Idle == [pc |-> "idle"]

(* The constructor: options.x || default *)
constructor(options) ==
    [openai |-> options.openai,
     embeddingModel |-> IF options.embeddingModel = "" THEN DefaultEmbeddingModel
                        ELSE options.embeddingModel,
     defaultBatchSize |-> IF options.defaultBatchSize = 0 THEN DefaultBatchSize
                          ELSE options.defaultBatchSize,
     batchDelay |-> IF options.batchDelay = 0 THEN DefaultBatchDelay
                    ELSE options.batchDelay]

-----------------------------------------------------------------------------
(* addDocuments(documents, {createEmbedding, batchSize, batchDelay,         *)
(* onProgress}).  Error indices are the source's 0-based ones.              *)

(* The checks of one input document in the "validate early" forEach. *)
checkInputDocument(table, docs, i, createEmbedding) ==
    LET doc == docs[i]
        others == {j \in DOMAIN docs : j # i /\ docs[j].id = doc.id}
        expectedDim == getEmbeddingDimensions(table)
    IN IF doc.id = ""
       THEN [Error("Document at index must have a valid non-empty ID")
                EXCEPT !.index = i - 1]
       ELSE IF others # {}
       THEN [Error("Duplicate document ID found at indices")
                EXCEPT !.id = doc.id, !.index = i - 1, !.other = Min(others) - 1]
       ELSE IF has(table, doc.id)
       THEN [Error("Document with ID already exists in store") EXCEPT !.id = doc.id]
       ELSE IF createEmbedding
       THEN IF ~IsSome(doc.embedding) /\ doc.content = ""
            THEN [Error("must have non-empty content when createEmbedding is true")
                     EXCEPT !.id = doc.id, !.index = i - 1]
            ELSE NoError
       ELSE IF ~IsSome(doc.embedding) \/ Len(Get(doc.embedding)) = 0
       THEN [Error("must have a valid embedding array when createEmbedding is false")
                EXCEPT !.id = doc.id, !.index = i - 1]
       ELSE IF hasInvalidValues(Get(doc.embedding))
       THEN [Error("has invalid embedding values. All values must be finite numbers")
                EXCEPT !.id = doc.id, !.index = i - 1]
       ELSE IF IsSome(expectedDim) /\ Len(Get(doc.embedding)) # Get(expectedDim)
       THEN [DimensionError("embedding dimensions don't match existing documents",
                            Len(Get(doc.embedding)), table)
                EXCEPT !.id = doc.id, !.index = i - 1]
       ELSE NoError

preValidate_noStoreCheck(table, docs, createEmbedding) ==
    FirstError([i \in DOMAIN docs |-> checkInputDocument(<<>>, docs, i, createEmbedding)])

(* documents.forEach((doc, index) => { ... throw ... }) *)
preValidate(table, docs, createEmbedding) ==
    FirstError([i \in DOMAIN docs |-> checkInputDocument(table, docs, i, createEmbedding)])

(* The checks of a document that brings its embedding, createEmbedding set. *)
checkOwnEmbedding(table, doc) ==
    LET expectedDim == getEmbeddingDimensions(table)
    IN IF ~IsSome(doc.embedding) THEN NoError
       ELSE IF Len(Get(doc.embedding)) = 0
       THEN [Error("Document has invalid embedding array") EXCEPT !.id = doc.id]
       ELSE IF hasInvalidValues(Get(doc.embedding))
       THEN [Error("Document has invalid embedding values") EXCEPT !.id = doc.id]
       ELSE IF IsSome(expectedDim) /\ Len(Get(doc.embedding)) # Get(expectedDim)
       THEN [DimensionError("Document embedding dimensions don't match existing documents",
                            Len(Get(doc.embedding)), table)
                EXCEPT !.id = doc.id]
       ELSE NoError

needsEmbedding(doc) == ~IsSome(doc.embedding)
bringsEmbedding(doc) == IsSome(doc.embedding)

(* A progress path that asks the provider for one text at a time. *)
batchesOf_progressSingly(texts, batchSize, onProgress) ==
    IF onProgress THEN chunkArray(texts, 1)
    ELSE IF Len(texts) <= batchSize THEN <<texts>>
    ELSE chunkArray(texts, batchSize)

(* The chunks the provider is asked for, in order. *)
batchesOf(texts, batchSize, onProgress) ==
    IF onProgress THEN chunkArray(texts, batchSize)
    ELSE IF Len(texts) <= batchSize THEN <<texts>>
    ELSE chunkArray(texts, batchSize)

(* The checks of the generated embeddings. *)
checkGenerated(table, generated) ==
    LET expectedDim == getEmbeddingDimensions(table)
        firstEmbeddingDim == Len(generated[1])
    IN IF Len(generated) = 0 THEN NoError
       ELSE IF IsSome(expectedDim) /\ firstEmbeddingDim # Get(expectedDim)
       THEN DimensionError("Generated embedding dimensions don't match existing documents",
                           firstEmbeddingDim, table)
       ELSE IF \E k \in DOMAIN generated : Len(generated[k]) # firstEmbeddingDim
       THEN Error("Generated embeddings have inconsistent dimensions")
       ELSE NoError

(* A re-zip that leaves out the documents the provider sent no vector for. *)
docsWithNewEmbeddings_dropsMissing(needing, generated) ==
    [k \in 1..Min2(Len(needing), Len(generated)) |->
        [needing[k] EXCEPT !.embedding = Some(generated[k])]]

(* documentsNeedingEmbeddings.map((doc, index) =>                           *)
(*     ({...doc, embedding: generatedEmbeddings[index]}))                   *)
docsWithNewEmbeddings(needing, generated) ==
    [k \in DOMAIN needing |->
        [needing[k] EXCEPT !.embedding =
            IF k <= Len(generated) THEN Some(generated[k]) ELSE None]]

(* The final dimension check; reading .length of an undefined embedding     *)
(* throws a TypeError.                                                      *)
checkFinal(table, finalDocuments) ==
    LET expectedDim == getEmbeddingDimensions(table)
        firstDocDim == IF IsSome(finalDocuments[1].embedding)
                       THEN Len(Get(finalDocuments[1].embedding)) ELSE -1
        each == [i \in DOMAIN finalDocuments |->
                    IF ~IsSome(finalDocuments[i].embedding)
                    THEN [Error("TypeError: Cannot read properties of undefined")
                             EXCEPT !.id = finalDocuments[i].id]
                    ELSE IF Len(Get(finalDocuments[i].embedding)) # firstDocDim
                    THEN [Error("Inconsistent embedding dimensions in batch")
                             EXCEPT !.id = finalDocuments[i].id,
                                    !.got = Len(Get(finalDocuments[i].embedding)),
                                    !.expected = firstDocDim]
                    ELSE NoError]
    IN IF Len(finalDocuments) = 0 THEN NoError
       ELSE IF IsError(FirstError(each)) THEN FirstError(each)
       ELSE IF IsSome(expectedDim) /\ firstDocDim # Get(expectedDim)
       THEN DimensionError("Batch embedding dimensions don't match existing documents",
                           firstDocDim, table)
       ELSE NoError

(* finalDocuments.forEach(doc => this.documents.set(doc.id, {...})) *)
RECURSIVE setAll(_, _, _, _)
setAll(table, finalDocuments, k, now) ==
    IF k > Len(finalDocuments) THEN table
    ELSE setAll(set(table, withTimestamps(finalDocuments[k],
                                          Get(finalDocuments[k].embedding), now)),
                finalDocuments, k + 1, now)

AddDocumentsCall(docs, options) ==
    [pc |-> "done", op |-> "addDocuments", documents |-> docs, options |-> options,
     needing |-> <<>>, withEmbeddings |-> <<>>, batches |-> <<>>, i |-> 0,
     generated |-> <<>>, processed |-> 0, events |-> <<>>,
     outcome |-> "ok", error |-> NoError]

Failed(call, error) == [call EXCEPT !.pc = "done", !.outcome = "error", !.error = error]
Returned(call) == [call EXCEPT !.pc = "done", !.outcome = "ok"]

(* A store that writes the documents that bring their embedding before it  *)
(* checks the generated ones.                                               *)
addDocumentsFinish_writesFirst(table, call, createEmbedding, now) ==
    LET generatedError == IF createEmbedding THEN checkGenerated(table, call.generated)
                          ELSE NoError
        written == setAll(table, call.withEmbeddings, 1, now)
        finalDocuments == IF createEmbedding
                          THEN docsWithNewEmbeddings(call.needing, call.generated)
                          ELSE call.documents
        finalError == checkFinal(written, finalDocuments)
    IN IF IsError(generatedError)
       THEN [call |-> Failed(call, generatedError), table |-> written]
       ELSE IF IsError(finalError)
       THEN [call |-> Failed(call, finalError), table |-> written]
       ELSE [call |-> Returned(call), table |-> setAll(written, finalDocuments, 1, now)]

(* A store that writes the documents in the order of the input, each        *)
(* generated embedding at the place of its document.                        *)
addDocumentsFinish_inputOrder(table, call, createEmbedding, now) ==
    LET generatedError == IF createEmbedding THEN checkGenerated(table, call.generated)
                          ELSE NoError
        rank(k) == Cardinality({j \in 1..k : needsEmbedding(call.documents[j])})
        finalDocuments == [k \in DOMAIN call.documents |->
                              IF bringsEmbedding(call.documents[k]) \/ ~createEmbedding
                              THEN call.documents[k]
                              ELSE docsWithNewEmbeddings(call.needing, call.generated)[rank(k)]]
        finalError == checkFinal(table, finalDocuments)
    IN IF IsError(generatedError)
       THEN [call |-> Failed(call, generatedError), table |-> table]
       ELSE IF IsError(finalError)
       THEN [call |-> Failed(call, finalError), table |-> table]
       ELSE [call |-> Returned(call), table |-> setAll(table, finalDocuments, 1, now)]

(* From "Validate generated embeddings dimensions" to the end: no await. *)
addDocumentsFinish(table, call, createEmbedding, now) ==
    LET generatedError == IF createEmbedding THEN checkGenerated(table, call.generated)
                          ELSE NoError
        finalDocuments == IF createEmbedding
                          THEN call.withEmbeddings
                                   \o docsWithNewEmbeddings(call.needing, call.generated)
                          ELSE call.documents
        finalError == checkFinal(table, finalDocuments)
    IN IF IsError(generatedError)
       THEN [call |-> Failed(call, generatedError), table |-> table]
       ELSE IF IsError(finalError)
       THEN [call |-> Failed(call, finalError), table |-> table]
       ELSE [call |-> Returned(call), table |-> setAll(table, finalDocuments, 1, now)]

(* From the start of addDocuments to its first await, or to its end. *)
addDocumentsBegin(table, cfg, docs, options, now) ==
    LET createEmbedding == OrElse(options.createEmbedding, FALSE)
        batchSize == OrElse(options.batchSize, cfg.defaultBatchSize)
        call == AddDocumentsCall(docs, options)
        inputError == preValidate(table, docs, createEmbedding)
        ownError == FirstError([i \in DOMAIN docs |-> checkOwnEmbedding(table, docs[i])])
        needing == SelectSeq(docs, needsEmbedding)
        split == [call EXCEPT !.needing = needing,
                              !.withEmbeddings = SelectSeq(docs, bringsEmbedding)]
        textsToEmbed == [k \in DOMAIN needing |-> needing[k].content]
        batches == batchesOf(textsToEmbed, batchSize, options.onProgress)
    IN IF Len(docs) = 0 THEN [call |-> call, table |-> table]
       ELSE IF IsError(inputError) THEN [call |-> Failed(call, inputError), table |-> table]
       ELSE IF ~createEmbedding THEN addDocumentsFinish(table, call, FALSE, now)
       ELSE IF IsError(ownError) THEN [call |-> Failed(call, ownError), table |-> table]
       ELSE IF Len(needing) = 0 THEN addDocumentsFinish(table, split, TRUE, now)
       ELSE IF ~cfg.openai
       THEN [call |-> Failed([split EXCEPT !.batches = batches],
                             [Error("Failed to generate embeddings")
                                 EXCEPT !.cause = "OpenAI instance is required"]),
             table |-> table]
       ELSE [call |-> [split EXCEPT !.pc = "await", !.outcome = "pending",
                                    !.batches = batches, !.i = 1,
                                    !.events = <<EmbedEvent(batches[1])>>],
             table |-> table]

processedCount_perChunk(processed, batch) == processed + 1

(* processedCount += batch.length *)
processedCount(processed, batch) == processed + Len(batch)

(* addDocuments resumed by the provider's answer to batch i. *)
addDocumentsResume(table, cfg, call, response, now) ==
    LET batchDelay == OrElse(call.options.batchDelay, cfg.batchDelay)
        batch == call.batches[call.i]
        last == call.i = Len(call.batches)
        processed == processedCount(call.processed, batch)
        events == call.events \o <<ResponseEvent(response.data)>>
                    \o (IF call.options.onProgress
                        THEN <<ProgressEvent(processed, Len(call.needing))>> ELSE <<>>)
                    \o (IF ~last /\ batchDelay > 0 THEN <<DelayEvent(batchDelay)>> ELSE <<>>)
        got == [call EXCEPT !.generated = call.generated \o batchEmbeddingsOf(response.data),
                            !.processed = processed, !.events = events]
    IN IF ~response.ok
       THEN [call |-> Failed([call EXCEPT !.events = Append(call.events, Event("failure"))],
                             [Error("Failed to generate embeddings")
                                 EXCEPT !.cause = "provider", !.index = call.i]),
             table |-> table]
       ELSE IF ~last
       THEN [call |-> [got EXCEPT !.i = call.i + 1,
                                  !.events = Append(events, EmbedEvent(call.batches[call.i + 1]))],
             table |-> table]
       ELSE addDocumentsFinish(table, got, TRUE, now)

-----------------------------------------------------------------------------
(* addDocument(document, {createEmbedding}) and updateDocument(document,    *)
(* {createEmbedding}).                                                      *)

SingleCall(op, doc, options) ==
    [pc |-> "done", op |-> op, document |-> doc, options |-> options,
     events |-> <<>>, result |-> FALSE, outcome |-> "ok", error |-> NoError]

(* From validateDocument to this.documents.set: no await. *)
addDocumentStore(table, call, finalDocument, now) ==
    LET invalid == validateDocument(finalDocument)
    IN IF IsError(invalid) THEN [call |-> Failed(call, invalid), table |-> table]
       ELSE IF ~validateEmbeddingDimensions(table, Get(finalDocument.embedding))
       THEN [call |-> Failed(call,
                 DimensionError("Document embedding dimensions don't match existing documents",
                                Len(Get(finalDocument.embedding)), table)),
             table |-> table]
       ELSE [call |-> Returned(call),
             table |-> set(table, withTimestamps(finalDocument,
                                                 Get(finalDocument.embedding), now))]

updateDocumentStore_resetsCreatedAt(table, call, finalDocument, now) ==
    IF has(table, finalDocument.id)
    THEN addDocumentStore(table, [call EXCEPT !.result = TRUE], finalDocument, now)
    ELSE [call |-> Failed(call, Error("TypeError: Cannot read properties of undefined")),
          table |-> table]

(* An update that writes the document anew when its id has gone. *)
updateDocumentStore_resurrects(table, call, finalDocument, now) ==
    LET invalid == validateDocument(finalDocument)
        existingDoc == get(table, finalDocument.id)
        written == withTimestamps(finalDocument, Get(finalDocument.embedding), now)
    IN IF IsError(invalid) THEN [call |-> Failed(call, invalid), table |-> table]
       ELSE IF ~validateEmbeddingDimensions(table, Get(finalDocument.embedding))
       THEN [call |-> Failed(call,
                 DimensionError("Document embedding dimensions don't match existing documents",
                                Len(Get(finalDocument.embedding)), table)),
             table |-> table]
       ELSE [call |-> [Returned(call) EXCEPT !.result = TRUE],
             table |-> set(table,
                           IF IsSome(existingDoc)
                           THEN [written EXCEPT !.createdAt = Get(existingDoc).createdAt]
                           ELSE written)]

(* From validateDocument to this.documents.set, keeping createdAt. *)
updateDocumentStore(table, call, finalDocument, now) ==
    LET invalid == validateDocument(finalDocument)
        existingDoc == get(table, finalDocument.id)
    IN IF IsError(invalid) THEN [call |-> Failed(call, invalid), table |-> table]
       ELSE IF ~validateEmbeddingDimensions(table, Get(finalDocument.embedding))
       THEN [call |-> Failed(call,
                 DimensionError("Document embedding dimensions don't match existing documents",
                                Len(Get(finalDocument.embedding)), table)),
             table |-> table]
       ELSE IF ~IsSome(existingDoc)
       THEN [call |-> Failed(call, [Error("TypeError: Cannot read properties of undefined")
                                       EXCEPT !.id = finalDocument.id]),
             table |-> table]
       ELSE [call |-> [Returned(call) EXCEPT !.result = TRUE],
             table |-> set(table,
                           [withTimestamps(finalDocument, Get(finalDocument.embedding), now)
                               EXCEPT !.createdAt = Get(existingDoc).createdAt])]

store(op, table, call, finalDocument, now) ==
    IF op = "addDocument" THEN addDocumentStore(table, call, finalDocument, now)
    ELSE updateDocumentStore(table, call, finalDocument, now)

(* The body shared by addDocument and updateDocument, to the first await. *)
singleBegin(op, table, cfg, doc, options, now) ==
    LET createEmbedding == OrElse(options.createEmbedding, FALSE)
        call == SingleCall(op, doc, options)
    IN IF createEmbedding /\ ~IsSome(doc.embedding)
       THEN IF doc.content = ""
            THEN [call |-> Failed(call,
                      Error("Document must have content when createEmbedding is true")),
                  table |-> table]
            ELSE IF ~cfg.openai
            THEN [call |-> Failed(call,
                      Error("OpenAI instance is required for embedding generation")),
                  table |-> table]
            ELSE [call |-> [call EXCEPT !.pc = "await", !.outcome = "pending",
                                        !.events = <<EmbedEvent(<<doc.content>>)>>],
                  table |-> table]
       ELSE IF IsSome(doc.embedding) THEN store(op, table, call, doc, now)
       ELSE [call |-> Failed(call,
                 Error("Document must have an embedding or createEmbedding must be true")),
             table |-> table]

addDocumentBegin(table, cfg, doc, options, now) ==
    singleBegin("addDocument", table, cfg, doc, options, now)

updateDocumentBegin_validatesFirst(table, cfg, doc, options, now) ==
    singleBegin("updateDocument", table, cfg, doc, options, now)

updateDocumentBegin(table, cfg, doc, options, now) ==
    IF ~has(table, doc.id)
    THEN [call |-> SingleCall("updateDocument", doc, options), table |-> table]
    ELSE singleBegin("updateDocument", table, cfg, doc, options, now)

(* generateEmbedding: response.data[0].embedding, any throw rewrapped. *)
singleResume(table, call, response, now) ==
    LET answered == [call EXCEPT !.events = Append(call.events, ResponseEvent(response.data))]
    IN IF ~response.ok \/ Len(response.data) = 0
       THEN [call |-> Failed(answered, [Error("Failed to generate embedding")
                                           EXCEPT !.cause = "provider"]),
             table |-> table]
       ELSE store(call.op, table, answered,
                  [call.document EXCEPT !.embedding = Some(response.data[1].embedding)],
                  now)

(* removeDocument(id): this.documents.delete(id) *)
removeDocumentRun(table, id) ==
    [call |-> [pc |-> "done", op |-> "removeDocument", id |-> id,
               result |-> has(table, id), outcome |-> "ok", error |-> NoError],
     table |-> delete(table, id)]

(* A clear() that leaves the first document in the table. *)
clearRun_keepsFirst(table) ==
    [call |-> [pc |-> "done", op |-> "clear", outcome |-> "ok", error |-> NoError],
     table |-> SubSeq(table, 1, 1)]

(* clear(): this.documents.clear() *)
clearRun(table) ==
    [call |-> [pc |-> "done", op |-> "clear", outcome |-> "ok", error |-> NoError],
     table |-> <<>>]

-----------------------------------------------------------------------------
(* Numbers.  A JavaScript number is an IEEE 754 double: sign * m * 2^e with *)
(* a mantissa m of Mantissa bits, and sqrt, * and / give the double nearest *)
(* to the exact result, ties to the even mantissa.  Mantissas are kept as   *)
(* natural numbers written in limbs of LimbBits bits, lowest limb first,    *)
(* without leading zero limbs (0 is <<>>).                                  *)

Mantissa == 53
LimbBits == 15
Limb == 2 ^ LimbBits

RECURSIVE natural(_)
natural(n) == IF n = 0 THEN <<>> ELSE <<n % Limb>> \o natural(n \div Limb)

RECURSIVE trimmed(_)
trimmed(a) ==
    IF Len(a) > 0 /\ a[Len(a)] = 0 THEN trimmed(SubSeq(a, 1, Len(a) - 1)) ELSE a

limbOf(a, k) == IF k <= Len(a) THEN a[k] ELSE 0

(* -1, 0 or 1 as a < b, a = b or a > b, comparing from limb k downwards *)
RECURSIVE compareFrom(_, _, _)
compareFrom(a, b, k) ==
    IF k = 0 THEN 0
    ELSE IF a[k] < b[k] THEN -1
    ELSE IF a[k] > b[k] THEN 1
    ELSE compareFrom(a, b, k - 1)

compare(a, b) ==
    IF Len(a) < Len(b) THEN -1
    ELSE IF Len(a) > Len(b) THEN 1
    ELSE compareFrom(a, b, Len(a))

RECURSIVE plusFrom(_, _, _, _)
plusFrom(a, b, k, carry) ==
    IF k > Len(a) /\ k > Len(b)
    THEN IF carry = 0 THEN <<>> ELSE <<carry>>
    ELSE <<(limbOf(a, k) + limbOf(b, k) + carry) % Limb>>
         \o plusFrom(a, b, k + 1, (limbOf(a, k) + limbOf(b, k) + carry) \div Limb)

plus(a, b) == plusFrom(a, b, 1, 0)

(* a - b for a >= b *)
RECURSIVE minusFrom(_, _, _, _)
minusFrom(a, b, k, borrow) ==
    IF k > Len(a) THEN <<>>
    ELSE IF a[k] - limbOf(b, k) - borrow < 0
    THEN <<a[k] - limbOf(b, k) - borrow + Limb>> \o minusFrom(a, b, k + 1, 1)
    ELSE <<a[k] - limbOf(b, k) - borrow>> \o minusFrom(a, b, k + 1, 0)

minus(a, b) == trimmed(minusFrom(a, b, 1, 0))

(* a * d for one limb d *)
RECURSIVE timesLimbFrom(_, _, _, _)
timesLimbFrom(a, d, k, carry) ==
    IF k > Len(a)
    THEN IF carry = 0 THEN <<>> ELSE <<carry>>
    ELSE <<(a[k] * d + carry) % Limb>>
         \o timesLimbFrom(a, d, k + 1, (a[k] * d + carry) \div Limb)

(* a * Limb^k *)
shifted(a, k) == IF Len(a) = 0 THEN <<>> ELSE [i \in 1..k |-> 0] \o a

RECURSIVE productFrom(_, _, _)
productFrom(a, b, k) ==
    IF k > Len(b) THEN <<>>
    ELSE plus(shifted(trimmed(timesLimbFrom(a, b[k], 1, 0)), k - 1),
              productFrom(a, b, k + 1))

product(a, b) == productFrom(a, b, 1)

(* a * 2^k *)
shiftLeft(a, k) ==
    shifted(timesLimbFrom(a, 2 ^ (k % LimbBits), 1, 0), k \div LimbBits)

(* floor(a / 2^k) for k < LimbBits *)
lowered(a, k) ==
    trimmed([i \in 1..Len(a) |->
                a[i] \div 2 ^ k + (limbOf(a, i + 1) % 2 ^ k) * 2 ^ (LimbBits - k)])

(* floor(a / 2^k) *)
shiftRight(a, k) == lowered(SubSeq(a, k \div LimbBits + 1, Len(a)), k % LimbBits)

(* bit k of a, the lowest being bit 1 *)
bitOf(a, k) == (limbOf(a, (k - 1) \div LimbBits + 1) \div 2 ^ ((k - 1) % LimbBits)) % 2

RECURSIVE bitsOf(_)
bitsOf(n) == IF n = 0 THEN 0 ELSE 1 + bitsOf(n \div 2)

(* the number of bits of a *)
bitLength(a) ==
    IF Len(a) = 0 THEN 0 ELSE LimbBits * (Len(a) - 1) + bitsOf(a[Len(a)])

(* 2^k *)
power(k) == shiftLeft(<<1>>, k)

(* floor(n / d): the largest q with q * d <= n, decided limb by limb from   *)
(* the highest, and in a limb bit by bit from bit high down to bit low      *)
RECURSIVE quotientBits(_, _, _, _, _)
quotientBits(n, d, q, high, low) ==
    IF high < low THEN q
    ELSE LET candidate == plus(q, power(high - 1))
         IN IF compare(product(candidate, d), n) <= 0
            THEN quotientBits(n, d, candidate, high - 1, low)
            ELSE quotientBits(n, d, q, high - 1, low)

RECURSIVE quotientFrom(_, _, _, _)
quotientFrom(n, d, q, limb) ==
    IF limb = 0 THEN q
    ELSE quotientFrom(n, d,
                      quotientBits(n, d, q, limb * LimbBits, (limb - 1) * LimbBits + 1),
                      limb - 1)

quotient(n, d) ==
    IF compare(n, d) < 0 THEN <<>>
    ELSE quotientFrom(n, d, <<>>, (bitLength(n) - bitLength(d)) \div LimbBits + 1)

(* floor(sqrt(n)): the largest r with r * r <= n, decided the same way *)
RECURSIVE rootBits(_, _, _, _)
rootBits(n, r, high, low) ==
    IF high < low THEN r
    ELSE LET candidate == plus(r, power(high - 1))
         IN IF compare(product(candidate, candidate), n) <= 0
            THEN rootBits(n, candidate, high - 1, low)
            ELSE rootBits(n, r, high - 1, low)

RECURSIVE rootFrom(_, _, _)
rootFrom(n, r, limb) ==
    IF limb = 0 THEN r
    ELSE rootFrom(n, rootBits(n, r, limb * LimbBits, (limb - 1) * LimbBits + 1),
                  limb - 1)

root(n) == rootFrom(n, <<>>, Len(n) \div 2 + 1)

Double(sign, m, e) == [kind |-> "double", sign |-> sign, m |-> m, e |-> e]
Zero == Double(1, <<>>, 0)

(* a mantissa of Mantissa + 1 bits after rounding up becomes one of         *)
(* Mantissa bits                                                            *)
normal(sign, m, e) ==
    IF bitLength(m) > Mantissa THEN Double(sign, shiftRight(m, 1), e + 1)
    ELSE Double(sign, m, e)

(* n has excess bits too many: whether the nearest mantissa, ties to even,  *)
(* is the one above                                                         *)
roundsUp(n, excess, inexact) ==
    /\ bitOf(n, excess) = 1
    /\ \/ inexact
       \/ bitOf(n, excess + 1) = 1
       \/ shiftLeft(shiftRight(n, excess - 1), excess - 1) # n

roundedBy(sign, n, e, inexact, excess) ==
    IF excess <= 0 THEN Double(sign, shiftLeft(n, -excess), e + excess)
    ELSE normal(sign,
                plusFrom(shiftRight(n, excess), <<>>, 1,
                         IF roundsUp(n, excess, inexact) THEN 1 ELSE 0),
                e + excess)

(* The double nearest to sign * n * 2^e, ties to even; with inexact, n is   *)
(* the floor of a value that lies strictly between n and n + 1, and has     *)
(* more than Mantissa + 1 bits.                                             *)
rounded(sign, n, e, inexact) ==
    IF Len(n) = 0 THEN Zero
    ELSE roundedBy(sign, n, e, inexact, bitLength(n) - Mantissa)

(* an integer as a double *)
number(n) == rounded(IF n < 0 THEN -1 ELSE 1, natural(IF n < 0 THEN -n ELSE n), 0, FALSE)

(* the double nearest to sign * (n / d) * 2^e, whose floor is q *)
roundedQuotient(sign, n, d, q, e) ==
    rounded(sign, q, e, compare(product(q, d), n) # 0)

(* Math.sqrt(n) for an integer n >= 0 *)
sqrtScaled(scaled) ==
    roundedQuotient(1, scaled, root(scaled), root(scaled), -(Mantissa + 2))

sqrt(n) == sqrtScaled(shiftLeft(natural(n), 2 * (Mantissa + 2)))

(* a * b *)
times(a, b) == rounded(a.sign * b.sign, product(a.m, b.m), a.e + b.e, FALSE)

(* a / b, b not 0 *)
divideScaled(sign, scaled, d, e) ==
    roundedQuotient(sign, scaled, d, quotient(scaled, d), e)

divide(a, b) ==
    divideScaled(a.sign * b.sign, shiftLeft(a.m, Mantissa + 3), b.m,
                 a.e - b.e - (Mantissa + 3))

(* a >= b for two doubles *)
magnitudeGE(a, b) ==
    IF Len(b.m) = 0 THEN TRUE
    ELSE IF Len(a.m) = 0 THEN FALSE
    ELSE IF a.e # b.e THEN a.e > b.e
    ELSE compare(a.m, b.m) >= 0

doubleGE(a, b) ==
    IF Len(a.m) = 0 /\ Len(b.m) = 0 THEN TRUE
    ELSE IF a.sign = 1 /\ (b.sign = -1 \/ Len(b.m) = 0) THEN TRUE
    ELSE IF a.sign = 1 THEN magnitudeGE(a, b)
    ELSE IF Len(a.m) = 0 THEN b.sign = -1
    ELSE IF b.sign = 1 THEN FALSE
    ELSE magnitudeGE(b, a)

-----------------------------------------------------------------------------
(* Similarity.  Embedding components are integers.  Where the magnitudes of *)
(* both vectors are integers, the double that the source computes is the    *)
(* one nearest to the exact score, and the score is kept in closed form so  *)
(* that comparisons are exact: "ratio" is num / sqrt(rad) with rad > 0      *)
(* (cosine, dot product, and a threshold n/d as n / sqrt(d*d)) and          *)
(* "inverse" is 1 / (1 + sqrt(rad)) (euclidean).  Where a magnitude is not  *)
(* an integer, the cosine is computed in doubles as the source does.        *)

Ratio(num, rad) == [kind |-> "ratio", num |-> num, rad |-> rad]
Inverse(rad) == [kind |-> "inverse", num |-> 1, rad |-> rad]
Number(n, d) == Ratio(n, d * d)

RECURSIVE dotFrom(_, _, _)
dotFrom(vecA, vecB, k) ==
    IF k = 0 THEN 0 ELSE dotFrom(vecA, vecB, k - 1) + vecA[k] * vecB[k]

(* vecA.reduce((sum, a, i) => sum + a * vecB[i], 0) *)
dotProductSimilarity(vecA, vecB) == Ratio(dotFrom(vecA, vecB, Len(vecA)), 1)

isSquare(n) == \E r \in 0..n : r * r = n

(* The vectors of which a magnitude is no integer, and the scores and       *)
(* thresholds their scores meet.                                            *)
DoubleVectors == {<<1, 1>>, <<1, -1>>, <<1, 0>>}
DoubleRatios == {Ratio(0, 1), Ratio(1, 1), Ratio(1, 4)}

(* Math.sqrt(square), computed once for each squared magnitude of these     *)
(* vectors.                                                                 *)
magnitudes == [square \in {dotFrom(v, v, Len(v)) : v \in DoubleVectors} |-> sqrt(square)]

(* dotProduct / (magnitudeA * magnitudeB), computed once for each dot       *)
(* product and pair of squared magnitudes of these vectors.                 *)
quotients ==
    [c \in {<<dotFrom(a, b, Len(a)), dotFrom(a, a, Len(a)), dotFrom(b, b, Len(b))>> :
                a \in DoubleVectors, b \in DoubleVectors} |->
        divide(number(c[1]), times(magnitudes[c[2]], magnitudes[c[3]]))]

cosineSimilarity(vecA, vecB) ==
    LET dotProduct == dotFrom(vecA, vecB, Len(vecA))
        squareA == dotFrom(vecA, vecA, Len(vecA))
        squareB == dotFrom(vecB, vecB, Len(vecB))
    IN IF squareA = 0 \/ squareB = 0 THEN Ratio(0, 1)
       ELSE IF isSquare(squareA) /\ isSquare(squareB)
       THEN Ratio(dotProduct, squareA * squareB)
       ELSE quotients[<<dotProduct, squareA, squareB>>]

euclideanSimilarity(vecA, vecB) ==
    LET diff == [k \in DOMAIN vecA |-> vecA[k] - vecB[k]]
    IN Inverse(dotFrom(diff, diff, Len(diff)))

(* calculateSimilarity, once the lengths are known to agree. *)
calculateSimilarity(vecA, vecB, method) ==
    CASE method = "euclidean" -> euclideanSimilarity(vecA, vecB)
      [] method = "dot" -> dotProductSimilarity(vecA, vecB)
      [] OTHER -> cosineSimilarity(vecA, vecB)

(* a >= b for a, b of kind "ratio" *)
RatioGE(a, b) ==
    IF a.num >= 0 /\ b.num <= 0 THEN TRUE
    ELSE IF a.num < 0 /\ b.num >= 0 THEN FALSE
    ELSE IF a.num >= 0 THEN a.num * a.num * b.rad >= b.num * b.num * a.rad
    ELSE a.num * a.num * b.rad <= b.num * b.num * a.rad

(* 1 / (1 + sqrt(a.rad)) >= b.num / sqrt(b.rad) *)
InverseGERatio(a, b) ==
    LET n == b.num
        r == b.rad
        left == r + n * n - n * n * a.rad
    IN IF n <= 0 THEN TRUE
       ELSE IF r < n * n THEN FALSE
       ELSE IF left < 0 THEN FALSE
       ELSE left * left >= 4 * n * n * r

(* The double of a score or threshold num / sqrt(rad) with an integer root. *)
doubles ==
    [a \in DoubleRatios |->
        divide(number(a.num), number(CHOOSE r \in 0..a.rad : r * r = a.rad))]

asDouble(a) == IF a.kind = "double" THEN a ELSE doubles[a]

(* similarity >= other: against a threshold, or between two scores of one   *)
(* method.                                                                  *)
ScoreGE(a, b) ==
    IF a.kind = "double" \/ b.kind = "double" THEN doubleGE(asDouble(a), asDouble(b))
    ELSE IF a.kind = "ratio" THEN RatioGE(a, b)
    ELSE IF b.kind = "ratio" THEN InverseGERatio(a, b)
    ELSE a.rad <= b.rad

(* results.sort((a, b) => b.similarity - a.similarity): stable, highest     *)
(* first.                                                                   *)
RECURSIVE insertByScore(_, _)
insertByScore(sorted, item) ==
    IF Len(sorted) = 0 THEN <<item>>
    ELSE IF ScoreGE(sorted[Len(sorted)].similarity, item.similarity)
    THEN Append(sorted, item)
    ELSE Append(insertByScore(SubSeq(sorted, 1, Len(sorted) - 1), item),
                sorted[Len(sorted)])

RECURSIVE sortByScoreFrom(_, _)
sortByScoreFrom(results, k) ==
    IF k = 0 THEN <<>> ELSE insertByScore(sortByScoreFrom(results, k - 1), results[k])

sortBySimilarity_unsorted(results) == results

sortBySimilarity_lastFirst(results) ==
    sortByScoreFrom([k \in DOMAIN results |-> results[Len(results) + 1 - k]],
                    Len(results))

sortBySimilarity(results) == sortByScoreFrom(results, Len(results))

(* A filter without keys taken for no filter. *)
filterByMetadata_emptyKeepsAll(docs, filter) ==
    LET matches(doc) ==
            \/ DOMAIN filter = {}
            \/ /\ IsSome(doc.metadata)
               /\ \A key \in DOMAIN filter :
                      /\ key \in DOMAIN Get(doc.metadata)
                      /\ Get(doc.metadata)[key] = filter[key]
    IN SelectSeq(docs, matches)

(* filterByMetadata(documents, filter) *)
filterByMetadata(docs, filter) ==
    LET matches(doc) ==
            /\ IsSome(doc.metadata)
            /\ \A key \in DOMAIN filter :
                   /\ key \in DOMAIN Get(doc.metadata)
                   /\ Get(doc.metadata)[key] = filter[key]
    IN SelectSeq(docs, matches)

(* getDocumentsByMetadata(filter), over getAllDocuments() *)
getDocumentsByMetadata(table, filter) == filterByMetadata(table, filter)

getDocumentsByMetadataRun(table, filter) ==
    [call |-> [pc |-> "done", op |-> "getDocumentsByMetadata", filter |-> filter,
               result |-> getDocumentsByMetadata(table, filter),
               outcome |-> "ok", error |-> NoError],
     table |-> table]

(* The loop of search leaving at the first document that cannot be scored,  *)
(* instead of skipping it.                                                  *)
sortedResults_stopsAtFailure(table, queryEmbedding, options) ==
    LET threshold == OrElse(options.threshold, Number(0, 1))
        similarityMethod == OrElse(options.similarityMethod, "cosine")
        documentsToSearch == IF IsSome(options.metadataFilter)
                             THEN filterByMetadata(table, Get(options.metadataFilter))
                             ELSE table
        reached(k) ==
            \A j \in 1..k : Len(documentsToSearch[j].embedding) = Len(queryEmbedding)
        scored(doc) ==
            ScoreGE(calculateSimilarity(queryEmbedding, doc.embedding, similarityMethod),
                    threshold)
        kept == SelectSeq(SubSeq(documentsToSearch, 1,
                                 Cardinality({k \in DOMAIN documentsToSearch : reached(k)})),
                          scored)
    IN sortBySimilarity(
           [k \in DOMAIN kept |->
               [document |-> kept[k],
                similarity |-> calculateSimilarity(queryEmbedding, kept[k].embedding,
                                                   similarityMethod)]])

(* The filter, score, threshold and sort steps shared by search and         *)
(* searchWithPagination; a document whose length differs from the query's   *)
(* makes calculateSimilarity throw and is skipped.                          *)
sortedResults(table, queryEmbedding, options) ==
    LET threshold == OrElse(options.threshold, Number(0, 1))
        similarityMethod == OrElse(options.similarityMethod, "cosine")
        documentsToSearch == IF IsSome(options.metadataFilter)
                             THEN filterByMetadata(table, Get(options.metadataFilter))
                             ELSE table
        scored(doc) ==
            /\ Len(doc.embedding) = Len(queryEmbedding)
            /\ ScoreGE(calculateSimilarity(queryEmbedding, doc.embedding, similarityMethod),
                       threshold)
        kept == SelectSeq(documentsToSearch, scored)
    IN sortBySimilarity(
           [k \in DOMAIN kept |->
               [document |-> kept[k],
                similarity |-> calculateSimilarity(queryEmbedding, kept[k].embedding,
                                                   similarityMethod)]])

searchResults_pageFromZero(table, queryEmbedding, options) ==
    LET sorted == sortedResults(table, queryEmbedding, options)
        startIdx == OrElse(options.page, 1) * Get(options.pageSize)
    IN IF IsSome(options.pageSize)
       THEN slice(sorted, startIdx, startIdx + Get(options.pageSize))
       ELSE slice(sorted, 0, OrElse(options.limit, DefaultLimit))

(* search: the pagination logic *)
searchResults(table, queryEmbedding, options) ==
    LET sorted == sortedResults(table, queryEmbedding, options)
        page == OrElse(options.page, 1)
        limit == OrElse(options.limit, DefaultLimit)
        startIdx == (page - 1) * Get(options.pageSize)
    IN IF IsSome(options.pageSize)
       THEN slice(sorted, startIdx, startIdx + Get(options.pageSize))
       ELSE slice(sorted, 0, limit)

(* Math.ceil(totalResults / pageSize); a division by 0 gives no finite      *)
(* number.                                                                  *)
ceilDiv(total, pageSize) ==
    IF pageSize = 0 THEN NonFinite
    ELSE IF pageSize > 0 THEN (total + pageSize - 1) \div pageSize
    ELSE -(total \div (-pageSize))

Page(data, page, pageSize, totalResults, totalPages) ==
    [data |-> data, page |-> page, pageSize |-> pageSize,
     totalResults |-> totalResults, totalPages |-> totalPages]

pagedSortedResults_noThreshold(table, queryEmbedding, options) ==
    sortedResults(table, queryEmbedding, [options EXCEPT !.threshold = None])

(* searchWithPagination: its own filter, score, threshold and sort steps. *)
pagedSortedResults(table, queryEmbedding, options) ==
    LET threshold == OrElse(options.threshold, Number(0, 1))
        similarityMethod == OrElse(options.similarityMethod, "cosine")
        documentsToSearch == IF IsSome(options.metadataFilter)
                             THEN filterByMetadata(table, Get(options.metadataFilter))
                             ELSE table
        similarity(document) ==
            calculateSimilarity(queryEmbedding, document.embedding, similarityMethod)
        pushed(document) ==
            /\ Len(queryEmbedding) = Len(document.embedding)
            /\ ScoreGE(similarity(document), threshold)
        results == SelectSeq(documentsToSearch, pushed)
    IN sortBySimilarity([k \in DOMAIN results |->
                            [document |-> results[k],
                             similarity |-> similarity(results[k])]])

(* searchWithPagination: the slice and the metadata *)
pageResults(table, queryEmbedding, options) ==
    LET sorted == pagedSortedResults(table, queryEmbedding, options)
        page == OrElse(options.page, 1)
        pageSize == OrElse(options.pageSize, DefaultPageSize)
        startIdx == (page - 1) * pageSize
    IN Page(slice(sorted, startIdx, startIdx + pageSize), page, pageSize,
            Len(sorted), ceilDiv(Len(sorted), pageSize))

VectorQuery(v) == [kind |-> "vector", vector |-> v, text |-> ""]
TextQuery(t) == [kind |-> "text", vector |-> <<>>, text |-> t]

SearchCall(op, query, options) ==
    [pc |-> "done", op |-> op, query |-> query, options |-> options,
     events |-> <<>>, result |-> <<>>, outcome |-> "ok", error |-> NoError]

resultsOf(op, table, queryEmbedding, options) ==
    IF op = "search" THEN searchResults(table, queryEmbedding, options)
    ELSE pageResults(table, queryEmbedding, options)

emptyResult(op, options) ==
    IF op = "search" THEN <<>>
    ELSE Page(<<>>, OrElse(options.page, 1), OrElse(options.pageSize, DefaultPageSize), 0, 0)

emptyTableThrows(op, call) ==
    Failed(call, Error("Query embedding must be provided and non-empty"))

(* if (this.documents.size === 0) return ... *)
emptyTableReturn(op, call) == [call EXCEPT !.result = emptyResult(op, call.options)]

queryCheck_skip(query) == NoError

(* if (query.length === 0) throw ... *)
queryCheck(query) ==
    IF Len(query.vector) = 0
    THEN Error("Query embedding must be provided and non-empty")
    ELSE NoError

(* A search that asks for the embedding of a text whether or not the store  *)
(* has a provider.                                                          *)
searchBegin_embedsAnyway(op, table, cfg, query, options) ==
    LET call == SearchCall(op, query, options)
    IN IF Len(table) = 0 THEN emptyTableReturn(op, call)
       ELSE IF query.kind = "text"
       THEN [call EXCEPT !.pc = "await", !.outcome = "pending",
                         !.events = <<EmbedEvent(<<query.text>>)>>]
       ELSE IF IsError(queryCheck(query)) THEN Failed(call, queryCheck(query))
       ELSE [call EXCEPT !.result = resultsOf(op, table, query.vector, options)]

(* search and searchWithPagination, to the first await or to the end. *)
searchBegin(op, table, cfg, query, options) ==
    LET call == SearchCall(op, query, options)
    IN IF Len(table) = 0 THEN emptyTableReturn(op, call)
       ELSE IF query.kind = "text"
       THEN IF ~cfg.openai
            THEN Failed(call, Error("OpenAI instance is required for embedding generation"))
            ELSE [call EXCEPT !.pc = "await", !.outcome = "pending",
                              !.events = <<EmbedEvent(<<query.text>>)>>]
       ELSE IF IsError(queryCheck(query)) THEN Failed(call, queryCheck(query))
       ELSE [call EXCEPT !.result = resultsOf(op, table, query.vector, options)]

(* search resumed by the provider's answer to the text query. *)
searchResume(table, call, response) ==
    LET answered == [call EXCEPT !.events = Append(call.events, ResponseEvent(response.data))]
    IN IF ~response.ok \/ Len(response.data) = 0
       THEN Failed(answered, [Error("Failed to generate embedding")
                                 EXCEPT !.cause = "provider"])
       ELSE [Returned(answered) EXCEPT
                !.result = resultsOf(call.op, table, response.data[1].embedding,
                                     call.options)]

(* findMostSimilar(query, similarityMethod = "cosine"): the options it      *)
(* passes to search.                                                        *)
findMostSimilarOptions_noMethod(similarityMethod) ==
    [limit |-> Some(1), threshold |-> None, similarityMethod |-> None,
     metadataFilter |-> None, page |-> None, pageSize |-> None]

findMostSimilarOptions(similarityMethod) ==
    [limit |-> Some(1), threshold |-> None,
     similarityMethod |-> Some(OrElse(similarityMethod, "cosine")),
     metadataFilter |-> None, page |-> None, pageSize |-> None]

(* results.length > 0 ? results[0] : null, once search has returned; an     *)
(* error of search is the error of findMostSimilar.                         *)
findMostSimilarReturn(searched, similarityMethod) ==
    [pc |-> searched.pc, op |-> "findMostSimilar", query |-> searched.query,
     similarityMethod |-> similarityMethod, options |-> searched.options,
     events |-> searched.events,
     result |-> IF searched.pc = "done" /\ searched.outcome = "ok"
                   /\ Len(searched.result) > 0
                THEN Some(searched.result[1])
                ELSE None,
     outcome |-> searched.outcome, error |-> searched.error]

findMostSimilarBegin(table, cfg, query, similarityMethod) ==
    findMostSimilarReturn(searchBegin("search", table, cfg, query,
                                      findMostSimilarOptions(similarityMethod)),
                          similarityMethod)

findMostSimilarResume(table, call, response) ==
    findMostSimilarReturn(searchResume(table, [call EXCEPT !.op = "search"], response),
                          call.similarityMethod)

-----------------------------------------------------------------------------
(* The embedding provider: it fails, or answers with items {embedding,      *)
(* index} in any order, one per text or one short.                          *)

ProviderFailure == [ok |-> FALSE, data |-> <<>>]

ProviderItems(n, vectors) ==
    {[embedding |-> v, index |-> k] : v \in vectors, k \in 0..(n - 1)}

ProviderAnswers(n, vectors) ==
    {[ok |-> TRUE, data |-> d] :
        d \in {s \in UNION {[1..m -> ProviderItems(n, vectors)] : m \in {n - 1, n} \cap Nat} :
                  \A a, b \in DOMAIN s : a # b => s[a].index # s[b].index}}

-----------------------------------------------------------------------------
(* Steps. *)

Free(p) == calls[p].pc = "idle"
Awaiting(p) == calls[p].pc = "await"

Apply(p, r) ==
    /\ \E done \in {r} :
           /\ calls' = [calls EXCEPT ![p] = done.call]
           /\ documents' = done.table
    /\ UNCHANGED <<config, clock>>

AddDocument(p, doc, options) ==
    /\ Free(p)
    /\ Apply(p, addDocumentBegin(documents, config, doc, options, clock))

AddDocuments(p, docs, options) ==
    /\ Free(p)
    /\ Apply(p, addDocumentsBegin(documents, config, docs, options, clock))

UpdateDocument(p, doc, options) ==
    /\ Free(p)
    /\ Apply(p, updateDocumentBegin(documents, config, doc, options, clock))

RemoveDocument(p, id) ==
    /\ Free(p)
    /\ Apply(p, removeDocumentRun(documents, id))

Clear(p) ==
    /\ Free(p)
    /\ Apply(p, clearRun(documents))

GetDocumentsByMetadata(p, filter) ==
    /\ Free(p)
    /\ Apply(p, getDocumentsByMetadataRun(documents, filter))

Search(p, op, query, options) ==
    /\ Free(p)
    /\ Apply(p, [call |-> searchBegin(op, documents, config, query, options),
                 table |-> documents])

FindMostSimilar(p, query, similarityMethod) ==
    /\ Free(p)
    /\ Apply(p, [call |-> findMostSimilarBegin(documents, config, query, similarityMethod),
                 table |-> documents])

(* The texts of the provider call that p awaits. *)
Asked(p) ==
    IF calls[p].op = "addDocuments" THEN calls[p].batches[calls[p].i]
    ELSE calls[p].events[1].texts

ProviderAnswer(p, response) ==
    /\ Awaiting(p)
    /\ Apply(p, CASE calls[p].op = "addDocuments" ->
                         addDocumentsResume(documents, config, calls[p], response, clock)
                   [] calls[p].op \in {"addDocument", "updateDocument"} ->
                         singleResume(documents, calls[p], response, clock)
                   [] calls[p].op = "findMostSimilar" ->
                         [call |-> findMostSimilarResume(documents, calls[p], response),
                          table |-> documents]
                   [] OTHER ->
                         [call |-> searchResume(documents, calls[p], response),
                          table |-> documents])

(* The caller takes the returned value or the thrown error. *)
Return(p) ==
    /\ calls[p].pc = "done"
    /\ calls' = [calls EXCEPT ![p] = Idle]
    /\ UNCHANGED <<documents, config, clock>>

-----------------------------------------------------------------------------
(* Inputs. *)

MaxBatch == 3

Ids == {"a", "b"}
BatchIds == {"a", "b", "c"}

TextOf(id) == "text " \o id

Doc(id, content, embedding, metadata) ==
    [id |-> id, content |-> content, embedding |-> embedding,
     metadata |-> metadata, createdAt |-> None]

Needs(id) == Doc(id, TextOf(id), None, None)
Brings(id, embedding) == Doc(id, TextOf(id), Some(embedding), None)

Metadatas == {None, Some([category |-> "g"])}

(* Single documents: with an embedding (valid, empty or not finite), or     *)
(* without one and with or without content; the id may be empty.            *)
DocInputs ==
    {Doc(id, TextOf(id), Some(e), m) :
        id \in Ids \cup {""}, e \in {<<1>>, <<1, 0>>, <<>>, <<NonFinite>>}, m \in Metadatas}
    \cup {Doc(id, c, None, m) : id \in Ids \cup {""}, c \in {"", "text"}, m \in Metadatas}

SingleOptions == {[createEmbedding |-> c] : c \in {None, Some(TRUE)}}

SingleVectors == {<<2>>, <<1, 0>>}
ProviderVectors == {<<1>>, <<2>>, <<1, 0>>}

Queries == {VectorQuery(<<>>), VectorQuery(<<1>>), VectorQuery(<<1, 0>>), TextQuery("q")}

Paging == {[page |-> None, pageSize |-> None], [page |-> Some(2), pageSize |-> Some(1)]}

SearchOptions ==
    {[limit |-> l, threshold |-> t, similarityMethod |-> m, metadataFilter |-> f,
      page |-> g.page, pageSize |-> g.pageSize] :
        l \in {None, Some(1)}, t \in {None, Some(Number(1, 1))},
        m \in {None, Some("euclidean"), Some("dot")},
        f \in {None, Some([category |-> "g"])}, g \in Paging}

(* Batches: documents that need an embedding, one that brings its own, one  *)
(* without content and one without id.                                      *)
BatchDocs ==
    {Needs(id) : id \in BatchIds}
    \cup {Brings("a", <<1>>), Doc("b", "", None, None), Needs("")}

Batches == UNION {[1..n -> BatchDocs] : n \in 0..MaxBatch}

BatchOptions ==
    {[createEmbedding |-> None, batchSize |-> None, batchDelay |-> None,
      onProgress |-> FALSE]}
    \cup [createEmbedding : {Some(TRUE)}, batchSize : {Some(1), Some(2)},
          batchDelay : {None, Some(0)}, onProgress : BOOLEAN]

NoOptions == [openai |-> FALSE, embeddingModel |-> "", defaultBatchSize |-> 0, batchDelay |-> 0]

-----------------------------------------------------------------------------
(* Spec: one caller of a store built with or without a provider; single     *)
(* documents and searches.                                                  *)

Init ==
    /\ documents = <<>>
    /\ config \in {constructor([NoOptions EXCEPT !.openai = o]) : o \in BOOLEAN}
    /\ calls = [p \in {"p"} |-> Idle]
    /\ clock = 0

DoAddDocument ==
    \E p \in DOMAIN calls :
        /\ Free(p)
        /\ \E doc \in DocInputs, o \in SingleOptions : AddDocument(p, doc, o)

DoUpdateDocument ==
    \E p \in DOMAIN calls :
        /\ Free(p)
        /\ \E doc \in DocInputs, o \in SingleOptions : UpdateDocument(p, doc, o)

DoRemoveDocument == \E p \in DOMAIN calls, id \in Ids : RemoveDocument(p, id)

DoClear == \E p \in DOMAIN calls : Clear(p)

DoSearch ==
    \E p \in DOMAIN calls :
        /\ Free(p)
        /\ \E q \in Queries, o \in SearchOptions : Search(p, "search", q, o)

DoSearchWithPagination ==
    \E p \in DOMAIN calls :
        /\ Free(p)
        /\ \E q \in Queries, o \in SearchOptions : Search(p, "searchWithPagination", q, o)

DoSingleAnswer ==
    \E p \in DOMAIN calls :
        /\ Awaiting(p)
        /\ \E r \in {ProviderFailure} \cup ProviderAnswers(1, SingleVectors) :
               ProviderAnswer(p, r)

DoReturn == \E p \in DOMAIN calls : Return(p)

Next ==
    \/ DoAddDocument
    \/ DoUpdateDocument
    \/ DoRemoveDocument
    \/ DoClear
    \/ DoSearch
    \/ DoSearchWithPagination
    \/ DoSingleAnswer
    \/ DoReturn

Spec == Init /\ [][Next]_vars

(* SpecBatch: one caller of a store built with a provider; addDocuments     *)
(* with batches of up to MaxBatch documents.                                *)

InitBatch ==
    /\ documents = <<>>
    /\ config = constructor([NoOptions EXCEPT !.openai = TRUE])
    /\ calls = [p \in {"p"} |-> Idle]
    /\ clock = 0

DoAddDocuments ==
    \E p \in DOMAIN calls :
        /\ Free(p)
        /\ \E docs \in Batches, o \in BatchOptions : AddDocuments(p, docs, o)

DoRemoveBatchDocument == \E p \in DOMAIN calls, id \in BatchIds : RemoveDocument(p, id)

DoBatchAnswer ==
    \E p \in DOMAIN calls :
        /\ Awaiting(p)
        /\ \E r \in {ProviderFailure} \cup ProviderAnswers(Len(Asked(p)), ProviderVectors) :
               ProviderAnswer(p, r)

NextBatch ==
    \/ DoAddDocuments
    \/ DoRemoveBatchDocument
    \/ DoClear
    \/ DoBatchAnswer
    \/ DoReturn

SpecBatch == InitBatch /\ [][NextBatch]_vars

(* SpecConc: two callers of one store built with a provider; their calls    *)
(* overlap across the embedding-provider awaits.                            *)

Tagged == Some([category |-> "g"])

(* A document that brings its embedding is passed without options, one     *)
(* that needs one with createEmbedding.                                     *)
ConcDocs ==
    {Doc(id, TextOf(id), Some(e), Tagged) : id \in Ids, e \in {<<1>>, <<1, 0>>}}
    \cup {Needs(id) : id \in Ids}

OptionsFor(doc) == [createEmbedding |-> IF IsSome(doc.embedding) THEN None ELSE Some(TRUE)]

ConcBatches ==
    {<<Needs("a")>>, <<Needs("b")>>, <<Needs("a"), Needs("b")>>,
     <<Doc("a", TextOf("a"), Some(<<1>>), Tagged), Needs("b")>>}

ConcBatchOptions ==
    {[createEmbedding |-> Some(TRUE), batchSize |-> Some(1), batchDelay |-> Some(0),
      onProgress |-> FALSE]}

ConcVectors == {<<1>>, <<1, 0>>}

InitConc ==
    /\ documents = <<>>
    /\ config = constructor([NoOptions EXCEPT !.openai = TRUE])
    /\ calls = [p \in {"p", "q"} |-> Idle]
    /\ clock = 0

ConcAddDocument ==
    \E p \in DOMAIN calls :
        /\ Free(p)
        /\ \E doc \in ConcDocs : AddDocument(p, doc, OptionsFor(doc))

ConcUpdateDocument ==
    \E p \in DOMAIN calls :
        /\ Free(p)
        /\ \E doc \in ConcDocs : UpdateDocument(p, doc, OptionsFor(doc))

ConcAddDocuments ==
    \E p \in DOMAIN calls :
        /\ Free(p)
        /\ \E docs \in ConcBatches, o \in ConcBatchOptions : AddDocuments(p, docs, o)

ConcAnswer ==
    \E p \in DOMAIN calls :
        /\ Awaiting(p)
        /\ \E r \in {ProviderFailure} \cup ProviderAnswers(Len(Asked(p)), ConcVectors) :
               ProviderAnswer(p, r)

NextConc ==
    \/ ConcAddDocument
    \/ ConcUpdateDocument
    \/ ConcAddDocuments
    \/ DoRemoveDocument
    \/ DoClear
    \/ ConcAnswer
    \/ DoReturn

SpecConc == InitConc /\ [][NextConc]_vars

(* SpecTime: one caller of a store built with a provider, and a clock that  *)
(* advances between steps: documents are added, replaced, updated and       *)
(* removed under changing values of new Date().                             *)

MaxClock == 2

Old(id) == Doc(id, "old", Some(<<1>>), None)
New(id, embedding) == Doc(id, "new", embedding, Tagged)

TimeDocs ==
    {Old(id) : id \in Ids}
    \cup {New(id, e) : id \in Ids, e \in {Some(<<2>>), Some(<<1, 0>>), Some(<<>>), None}}

TimeBatches == {<<Old("a")>>, <<Old("a"), New("b", Some(<<2>>))>>, <<New("b", None)>>}

TimeBatchOptions ==
    {[createEmbedding |-> Some(TRUE), batchSize |-> None, batchDelay |-> None,
      onProgress |-> FALSE]}

(* new Date() gives a later value. *)
Tick ==
    /\ clock < MaxClock
    /\ clock' = clock + 1
    /\ UNCHANGED <<documents, config, calls>>

TimeAddDocument ==
    \E p \in DOMAIN calls :
        /\ Free(p)
        /\ \E doc \in TimeDocs : AddDocument(p, doc, OptionsFor(doc))

TimeUpdateDocument ==
    \E p \in DOMAIN calls :
        /\ Free(p)
        /\ \E doc \in TimeDocs : UpdateDocument(p, doc, OptionsFor(doc))

TimeAddDocuments ==
    \E p \in DOMAIN calls :
        /\ Free(p)
        /\ \E docs \in TimeBatches, o \in TimeBatchOptions : AddDocuments(p, docs, o)

TimeAnswer ==
    \E p \in DOMAIN calls :
        /\ Awaiting(p)
        /\ \E r \in {ProviderFailure} \cup ProviderAnswers(Len(Asked(p)), SingleVectors) :
               ProviderAnswer(p, r)

NextTime ==
    \/ Tick
    \/ TimeAddDocument
    \/ TimeUpdateDocument
    \/ TimeAddDocuments
    \/ DoRemoveDocument
    \/ DoClear
    \/ TimeAnswer
    \/ DoReturn

SpecTime == InitBatch /\ [][NextTime]_vars


(* SpecSearch: one caller of a store built with a provider; tables of up to *)
(* three documents of dimension 2 with and without metadata, searched page  *)
(* by page.  A metadata value is a string, or an array: Array(ref, items)   *)
(* is the array object ref, and === on two arrays compares the objects.     *)

MaxPage == 3

Array(ref, items) == [ref |-> ref, items |-> items]

(* The metadata keys that hold arrays; the others hold strings. *)
ArrayKeys == {"tags"}

(* String.prototype.length of the strings that occur as content, metadata   *)
(* keys and metadata values.                                                *)
length(str) ==
    CASE str = "" -> 0
      [] str \in {"g", "h", "x", "q"} -> 1
      [] str = "en" -> 2
      [] str \in {"old", "new"} -> 3
      [] str \in {"text", "lang", "tags"} -> 4
      [] str \in {"text a", "text b", "text c"} -> 6
      [] str = "changed" -> 7
      [] str = "category" -> 8

(* JSON.stringify(str).length: the characters between two quotes *)
stringLength(str) == length(str) + 2

(* JSON.stringify(array).length: the items between brackets, with commas *)
RECURSIVE itemsLength(_, _)
itemsLength(items, k) ==
    IF k = 0 THEN 0 ELSE itemsLength(items, k - 1) + stringLength(items[k])

arrayLength(items) ==
    2 + itemsLength(items, Len(items)) + (IF Len(items) > 0 THEN Len(items) - 1 ELSE 0)

(* "key":value for each key of the object *)
RECURSIVE entriesLength(_, _)
entriesLength(object, keys) ==
    IF keys = {} THEN 0
    ELSE LET key == CHOOSE k \in keys : TRUE
         IN stringLength(key) + 1
            + (IF key \in ArrayKeys THEN arrayLength(object[key].items)
               ELSE stringLength(object[key]))
            + entriesLength(object, keys \ {key})

stringifyLength_empty(object) == 2

(* JSON.stringify(object).length: the entries between braces, with commas *)
stringifyLength(object) ==
    LET n == Cardinality(DOMAIN object)
    IN 2 + entriesLength(object, DOMAIN object) + (IF n > 0 THEN n - 1 ELSE 0)

(* getStats(): the loop that estimates memory usage, over the first k       *)
(* documents.                                                               *)
RECURSIVE memoryUsageFrom(_, _)
memoryUsageFrom(table, k) ==
    IF k = 0 THEN 0
    ELSE memoryUsageFrom(table, k - 1)
         + Len(table[k].embedding) * 8
         + length(table[k].content) * 2
         + stringifyLength(OrElse(table[k].metadata, <<>>)) * 2
         + 100

getStats(table) ==
    [documentCount |-> size(table),
     embeddingDimensions |-> getEmbeddingDimensions(table),
     estimatedMemoryUsage |-> memoryUsageFrom(table, Len(table))]

getStatsRun(table) ==
    [call |-> [pc |-> "done", op |-> "getStats", result |-> getStats(table),
               outcome |-> "ok", error |-> NoError],
     table |-> table]

GetStats(p) ==
    /\ Free(p)
    /\ Apply(p, getStatsRun(documents))

DoGetStats == \E p \in DOMAIN calls : GetStats(p)

SearchDocs ==
    {Doc("a", TextOf("a"), Some(<<1, 0>>), Some([category |-> "g"])),
     Doc("a", TextOf("a"), Some(<<3, 4>>), None),
     Doc("b", TextOf("b"), Some(<<3, 4>>), Some([category |-> "g", lang |-> "en"])),
     Doc("b", TextOf("b"), Some(<<0, 1>>), Some([category |-> "h"])),
     Doc("c", TextOf("c"), Some(<<1, 0>>), Some([tags |-> Array(1, <<"x">>)])),
     Doc("c", TextOf("c"), Some(<<0, 1>>), Some([category |-> "g"]))}

SearchQueries ==
    {VectorQuery(<<1, 0>>), VectorQuery(<<3, 4>>), VectorQuery(<<1>>), TextQuery("q")}

SearchVectors == {<<0, 1>>}

(* { tags: ["x"] } written at the call is a new array; the last filter      *)
(* passes the array the stored document holds.                              *)
MetadataFilters ==
    {[category |-> "g"], [category |-> "g", lang |-> "en"], [tags |-> Array(2, <<"x">>)]}

StoredFilters == {[tags |-> Array(1, <<"x">>)]}

Scoring ==
    [threshold : {None, Some(Number(3, 5))},
     similarityMethod : {None, Some("euclidean"), Some("dot")},
     metadataFilter : {None} \cup {Some(f) : f \in MetadataFilters}]

SearchOptionsFor(s, limit, page, pageSize) ==
    [limit |-> limit, threshold |-> s.threshold, similarityMethod |-> s.similarityMethod,
     metadataFilter |-> s.metadataFilter, page |-> page, pageSize |-> pageSize]

Limits == {None, Some(0), Some(2)}
Pages == {None} \cup {Some(n) : n \in (-1)..MaxPage}
PageSizes == {Some(1), Some(2)}

PagedOptions ==
    {SearchOptionsFor(s, l, None, None) : s \in Scoring, l \in Limits}
    \cup {SearchOptionsFor(s, None, g, k) : s \in Scoring, g \in Pages, k \in PageSizes}

SearchAddDocument ==
    \E p \in DOMAIN calls :
        /\ Free(p)
        /\ \E doc \in SearchDocs : AddDocument(p, doc, [createEmbedding |-> None])

SearchRemoveDocument ==
    \E p \in DOMAIN calls :
        /\ Free(p)
        /\ \E id \in BatchIds : RemoveDocument(p, id)

PagedSearch ==
    \E p \in DOMAIN calls :
        /\ Free(p)
        /\ \E q \in SearchQueries, o \in PagedOptions : Search(p, "search", q, o)

PagedSearchWithPagination ==
    \E p \in DOMAIN calls :
        /\ Free(p)
        /\ \E q \in SearchQueries, o \in PagedOptions :
               Search(p, "searchWithPagination", q, o)

DoGetDocumentsByMetadata ==
    \E p \in DOMAIN calls :
        /\ Free(p)
        /\ \E f \in MetadataFilters \cup StoredFilters : GetDocumentsByMetadata(p, f)

FindQueries == SearchQueries \cup {VectorQuery(<<-1, 0>>), VectorQuery(<<>>)}

DoFindMostSimilar ==
    \E p \in DOMAIN calls :
        /\ Free(p)
        /\ \E q \in FindQueries, m \in {None, Some("euclidean"), Some("dot")} :
               FindMostSimilar(p, q, m)

SearchAnswer ==
    \E p \in DOMAIN calls :
        /\ Awaiting(p)
        /\ \E r \in {ProviderFailure} \cup ProviderAnswers(1, SearchVectors) :
               ProviderAnswer(p, r)

NextSearch ==
    \/ SearchAddDocument
    \/ SearchRemoveDocument
    \/ DoClear
    \/ PagedSearch
    \/ PagedSearchWithPagination
    \/ DoGetDocumentsByMetadata
    \/ DoFindMostSimilar
    \/ DoGetStats
    \/ SearchAnswer
    \/ DoReturn

SpecSearch == InitBatch /\ [][NextSearch]_vars


(* SpecAlias: one caller that keeps the objects it passed to and got from   *)
(* the store, and writes to them.  addDocument stores { ...finalDocument,   *)
(* createdAt, updatedAt }: a new object whose embedding is the array of the *)
(* document passed in; getDocument, getAllDocuments and search return the   *)
(* stored objects themselves.  While a call is done and not yet returned    *)
(* from, its record holds these objects.                                    *)

MaxLen == 3

getAllDocuments(table) == table

getDocumentRun(table, id) ==
    [call |-> [pc |-> "done", op |-> "getDocument", id |-> id,
               result |-> getDocument(table, id), outcome |-> "ok", error |-> NoError],
     table |-> table]

getAllDocumentsRun(table) ==
    [call |-> [pc |-> "done", op |-> "getAllDocuments",
               result |-> getAllDocuments(table), outcome |-> "ok", error |-> NoError],
     table |-> table]

GetDocument(p, id) ==
    /\ Free(p)
    /\ Apply(p, getDocumentRun(documents, id))

GetAllDocuments(p) ==
    /\ Free(p)
    /\ Apply(p, getAllDocumentsRun(documents))

(* The ids of the stored documents whose embedding array the caller passed  *)
(* in with the call: the document of an addDocument that stored it with its *)
(* own embedding.                                                           *)
passedEmbeddings(call) ==
    IF /\ call.pc = "done"
       /\ call.op = "addDocument"
       /\ call.outcome = "ok"
       /\ IsSome(call.document.embedding)
    THEN {call.document.id}
    ELSE {}

(* The ids of the stored documents that the call returned to the caller. *)
returnedDocuments(call) ==
    IF call.pc # "done" \/ call.outcome # "ok" THEN {}
    ELSE CASE call.op = "getDocument" -> {call.result[k].id : k \in DOMAIN call.result}
           [] call.op = "getAllDocuments" -> {call.result[k].id : k \in DOMAIN call.result}
           [] call.op = "search" ->
                  {call.result[k].document.id : k \in DOMAIN call.result}
           [] OTHER -> {}

(* array.push(value) on the embedding array of the stored document id *)
pushEmbedding(table, id, value) ==
    [k \in DOMAIN table |->
        IF table[k].id = id
        THEN [table[k] EXCEPT !.embedding = Append(table[k].embedding, value)]
        ELSE table[k]]

(* document.content = content on the stored document id *)
assignContent(table, id, content) ==
    [k \in DOMAIN table |->
        IF table[k].id = id THEN [table[k] EXCEPT !.content = content] ELSE table[k]]

(* What the caller sees in the objects it holds, after a write to them. *)
seenBy(call, table) ==
    CASE call.op = "addDocument" ->
             [call EXCEPT !.document.embedding =
                             Some(Get(get(table, call.document.id)).embedding)]
      [] call.op \in {"getDocument", "getAllDocuments"} ->
             [call EXCEPT !.result =
                             [k \in DOMAIN call.result |->
                                 Get(get(table, call.result[k].id))]]
      [] OTHER ->
             [call EXCEPT !.result =
                             [k \in DOMAIN call.result |->
                                 [call.result[k] EXCEPT
                                     !.document =
                                         Get(get(table, call.result[k].document.id))]]]

Write(p, table) ==
    /\ documents' = table
    /\ calls' = [calls EXCEPT ![p] = seenBy(calls[p], table)]
    /\ UNCHANGED <<config, clock>>

(* The caller pushes a number onto the embedding array it passed in. *)
MutatePassed ==
    \E p \in DOMAIN calls :
        \E id \in passedEmbeddings(calls[p]) :
            /\ Len(Get(get(documents, id)).embedding) < MaxLen
            /\ Write(p, pushEmbedding(documents, id, 0))

(* The caller writes to a document it was given: its content, or its        *)
(* embedding array.                                                         *)
MutateReturned ==
    \E p \in DOMAIN calls :
        \E id \in returnedDocuments(calls[p]) :
            \/ /\ Get(get(documents, id)).content # "changed"
               /\ Write(p, assignContent(documents, id, "changed"))
            \/ /\ Len(Get(get(documents, id)).embedding) < MaxLen
               /\ Write(p, pushEmbedding(documents, id, 0))

AliasDocs == {Brings("a", <<1>>), Brings("b", <<2>>), Needs("b")}

AliasAddDocument ==
    \E p \in DOMAIN calls :
        /\ Free(p)
        /\ \E doc \in AliasDocs : AddDocument(p, doc, OptionsFor(doc))

AliasGetDocument ==
    \E p \in DOMAIN calls :
        /\ Free(p)
        /\ \E id \in Ids : GetDocument(p, id)

AliasGetAllDocuments == \E p \in DOMAIN calls : GetAllDocuments(p)

AliasSearch ==
    \E p \in DOMAIN calls :
        /\ Free(p)
        /\ \E q \in {VectorQuery(<<1>>), VectorQuery(<<1, 0>>)} :
               Search(p, "search", q, SearchOptionsFor(
                   [threshold |-> None, similarityMethod |-> None, metadataFilter |-> None],
                   None, None, None))

AliasAnswer ==
    \E p \in DOMAIN calls :
        /\ Awaiting(p)
        /\ \E r \in ProviderAnswers(1, {<<1>>}) : ProviderAnswer(p, r)

NextAlias ==
    \/ AliasAddDocument
    \/ AliasGetDocument
    \/ AliasGetAllDocuments
    \/ AliasSearch
    \/ DoRemoveDocument
    \/ DoClear
    \/ AliasAnswer
    \/ MutatePassed
    \/ MutateReturned
    \/ DoReturn

SpecAlias == InitBatch /\ [][NextAlias]_vars


(* SpecFloat: one caller; documents and queries whose magnitude is not an   *)
(* integer ([1,1], [1,-1]), is one ([1,0]) or is 0 ([0,0]), searched by     *)
(* cosine with and without a threshold.                                     *)

FloatDocs ==
    {Brings("a", e) : e \in {<<1, 1>>, <<0, 0>>}}
    \cup {Brings("b", e) : e \in {<<1, -1>>, <<1, 0>>}}

FloatQueries == {VectorQuery(<<1, 1>>), VectorQuery(<<1, 0>>), VectorQuery(<<0, 0>>)}

FloatOptions ==
    {SearchOptionsFor([threshold |-> t, similarityMethod |-> None, metadataFilter |-> None],
                      None, None, None) :
        t \in {None, Some(Number(1, 1)), Some(Number(1, 2))}}

FloatAddDocument ==
    \E p \in DOMAIN calls :
        /\ Free(p)
        /\ \E doc \in FloatDocs : AddDocument(p, doc, [createEmbedding |-> None])

FloatSearch ==
    \E p \in DOMAIN calls :
        /\ Free(p)
        /\ \E q \in FloatQueries, o \in FloatOptions : Search(p, "search", q, o)

FloatFindMostSimilar ==
    \E p \in DOMAIN calls :
        /\ Free(p)
        /\ \E q \in FloatQueries : FindMostSimilar(p, q, None)

NextFloat ==
    \/ FloatAddDocument
    \/ FloatSearch
    \/ FloatFindMostSimilar
    \/ DoRemoveDocument
    \/ DoClear
    \/ DoReturn

SpecFloat == InitBatch /\ [][NextFloat]_vars


(* SpecProvider: one caller of a store built with a provider that may       *)
(* return any vector: a valid one, an empty one or one that is not finite.  *)

AnyVectors == {<<1>>, <<>>, <<NonFinite>>}

ProviderDocs ==
    {Needs(id) : id \in Ids \cup {""}}
    \cup {Brings(id, e) : id \in Ids \cup {""}, e \in AnyVectors}

ProviderBatches == UNION {[1..n -> ProviderDocs] : n \in 1..2}

ProviderBatchOptions ==
    [createEmbedding : {None, Some(TRUE)}, batchSize : {Some(2)}, batchDelay : {Some(0)},
     onProgress : BOOLEAN]

ProviderAddDocument ==
    \E p \in DOMAIN calls :
        /\ Free(p)
        /\ \E doc \in ProviderDocs, o \in SingleOptions : AddDocument(p, doc, o)

ProviderUpdateDocument ==
    \E p \in DOMAIN calls :
        /\ Free(p)
        /\ \E doc \in ProviderDocs, o \in SingleOptions : UpdateDocument(p, doc, o)

ProviderAddDocuments ==
    \E p \in DOMAIN calls :
        /\ Free(p)
        /\ \E docs \in ProviderBatches, o \in ProviderBatchOptions : AddDocuments(p, docs, o)

ProviderAnswerAny ==
    \E p \in DOMAIN calls :
        /\ Awaiting(p)
        /\ \E r \in {ProviderFailure} \cup ProviderAnswers(Len(Asked(p)), AnyVectors) :
               ProviderAnswer(p, r)

NextProvider ==
    \/ ProviderAddDocument
    \/ ProviderUpdateDocument
    \/ ProviderAddDocuments
    \/ ProviderAnswerAny
    \/ DoRemoveDocument
    \/ DoClear
    \/ DoReturn

SpecProvider == InitBatch /\ [][NextProvider]_vars


(* The synchronous VectorStore: documents bring their embedding, nothing is *)
(* awaited.  Its validateDocument, validateEmbeddingDimensions and          *)
(* addDocument read as those of NeuraDB from validateDocument on.           *)

VectorStoreCall(op, docs) ==
    [pc |-> "done", op |-> op, documents |-> docs, events |-> <<>>,
     result |-> FALSE, outcome |-> "ok", error |-> NoError]

(* VectorStore.addDocument: validate, check the dimension, set. *)
VectorStoreAddDocument(table, call, document, now) ==
    addDocumentStore(table, call, document, now)

(* documents.forEach((doc) => this.addDocument(doc)): the first throw ends  *)
(* the loop, and what was set before it stays.                              *)
RECURSIVE VectorStoreAddEach(_, _, _, _)
VectorStoreAddEach(table, call, k, now) ==
    IF k > Len(call.documents) THEN [call |-> Returned(call), table |-> table]
    ELSE LET added == VectorStoreAddDocument(table, call, call.documents[k], now)
         IN IF added.call.outcome = "error" THEN added
            ELSE VectorStoreAddEach(added.table, call, k + 1, now)

(* VectorStore.addDocuments: validate every document, then add each. *)
VectorStoreAddDocuments(table, docs, now) ==
    LET call == VectorStoreCall("VectorStore.addDocuments", docs)
        invalid == FirstError([k \in DOMAIN docs |-> validateDocument(docs[k])])
    IN IF IsError(invalid) THEN [call |-> Failed(call, invalid), table |-> table]
       ELSE VectorStoreAddEach(table, call, 1, now)

(* SpecSync: one caller of a VectorStore. *)

SyncDocs ==
    {Brings(id, e) : id \in Ids \cup {""}, e \in {<<1>>, <<1, 0>>, <<>>, <<NonFinite>>}}

SyncBatches == UNION {[1..n -> SyncDocs] : n \in 0..2}

SyncAddDocument ==
    \E p \in DOMAIN calls :
        /\ Free(p)
        /\ \E doc \in SyncDocs :
               Apply(p, VectorStoreAddDocument(documents,
                            VectorStoreCall("VectorStore.addDocument", <<doc>>), doc, clock))

SyncAddDocuments ==
    \E p \in DOMAIN calls :
        /\ Free(p)
        /\ \E docs \in SyncBatches : Apply(p, VectorStoreAddDocuments(documents, docs, clock))

NextSync ==
    \/ SyncAddDocument
    \/ SyncAddDocuments
    \/ DoRemoveDocument
    \/ DoClear
    \/ DoReturn

SpecSync == InitBatch /\ [][NextSync]_vars


(* SpecNoProvider: one caller of a store built without a provider. *)

NoProviderBatchDocs ==
    {Needs("a"), Needs("b"), Brings("a", <<1>>), Brings("b", <<1>>), Brings("b", <<1, 0>>),
     Doc("b", "", None, None)}

NoProviderBatches == UNION {[1..n -> NoProviderBatchDocs] : n \in 0..2}

NoProviderBatchOptions ==
    [createEmbedding : {None, Some(TRUE)}, batchSize : {Some(1)}, batchDelay : {None},
     onProgress : BOOLEAN]

PlainSearch ==
    [limit |-> None, threshold |-> None, similarityMethod |-> None, metadataFilter |-> None,
     page |-> None, pageSize |-> None]

InitNoProvider ==
    /\ documents = <<>>
    /\ config = constructor(NoOptions)
    /\ calls = [p \in {"p"} |-> Idle]
    /\ clock = 0

NoProviderAddDocuments ==
    \E p \in DOMAIN calls :
        /\ Free(p)
        /\ \E docs \in NoProviderBatches, o \in NoProviderBatchOptions :
               AddDocuments(p, docs, o)

NoProviderSearch ==
    \E p \in DOMAIN calls :
        /\ Free(p)
        /\ \E q \in Queries, op \in {"search", "searchWithPagination"} :
               Search(p, op, q, PlainSearch)

NextNoProvider ==
    \/ DoAddDocument
    \/ DoUpdateDocument
    \/ NoProviderAddDocuments
    \/ NoProviderSearch
    \/ DoRemoveDocument
    \/ DoClear
    \/ DoReturn

SpecNoProvider == InitNoProvider /\ [][NextNoProvider]_vars


(* SpecChunk: the loop of chunkArray taken one iteration at a time, for     *)
(* batch sizes of any sign.  While a call is chunking, its field i is the   *)
(* loop variable and batches the chunks pushed so far; of a list of chunks  *)
(* that grows without end the first MaxChunks are kept, and of an index     *)
(* that falls without end no less than -MaxChunks.                          *)

MaxChunks == 4

(* addDocuments up to the call of chunkArray, where it makes one. *)
addDocumentsToChunking(table, cfg, docs, options, now) ==
    LET createEmbedding == OrElse(options.createEmbedding, FALSE)
        batchSize == OrElse(options.batchSize, cfg.defaultBatchSize)
        call == AddDocumentsCall(docs, options)
        needing == SelectSeq(docs, needsEmbedding)
        split == [call EXCEPT !.needing = needing,
                              !.withEmbeddings = SelectSeq(docs, bringsEmbedding)]
        chunks == /\ Len(docs) > 0
                  /\ ~IsError(preValidate(table, docs, createEmbedding))
                  /\ createEmbedding
                  /\ ~IsError(FirstError([i \in DOMAIN docs |->
                                             checkOwnEmbedding(table, docs[i])]))
                  /\ Len(needing) > 0
                  /\ \/ options.onProgress
                     \/ cfg.openai /\ Len(needing) > batchSize
    IN IF chunks
       THEN [call |-> [split EXCEPT !.pc = "chunk", !.outcome = "pending"], table |-> table]
       ELSE addDocumentsBegin(table, cfg, docs, options, now)

(* for (let i = 0; i < array.length; i += chunkSize)                        *)
(*     chunks.push(array.slice(i, i + chunkSize));                          *)
(* one test of the condition: an iteration, or the way on to the provider.  *)
chunkArrayStep(cfg, call) ==
    LET chunkSize == OrElse(call.options.batchSize, cfg.defaultBatchSize)
        array == [k \in DOMAIN call.needing |-> call.needing[k].content]
    IN IF call.i < Len(array)
       THEN [call EXCEPT !.batches = IF Len(@) < MaxChunks
                                     THEN Append(@, slice(array, call.i, call.i + chunkSize))
                                     ELSE @,
                         !.i = Max2(call.i + chunkSize, -MaxChunks)]
       ELSE IF ~cfg.openai
       THEN Failed(call, [Error("Failed to generate embeddings")
                             EXCEPT !.cause = "OpenAI instance is required"])
       ELSE [call EXCEPT !.pc = "await", !.i = 1,
                         !.events = <<EmbedEvent(call.batches[1])>>]

Chunking(p) == calls[p].pc = "chunk"

ChunkBatchSizes == {-1, 0, 1, 2}

ChunkBatches ==
    {<<Needs("a")>>, <<Needs("a"), Needs("b")>>, <<Brings("a", <<1>>), Needs("b")>>,
     <<Brings("a", <<1>>)>>, <<Needs("a"), Needs("a")>>}

ChunkOptions ==
    [createEmbedding : {Some(TRUE)},
     batchSize : {None} \cup {Some(b) : b \in ChunkBatchSizes},
     batchDelay : {Some(0)}, onProgress : BOOLEAN]

InitChunk ==
    /\ documents = <<>>
    /\ config \in {constructor([NoOptions EXCEPT !.openai = TRUE, !.defaultBatchSize = b]) :
                      b \in ChunkBatchSizes}
    /\ calls = [p \in {"p"} |-> Idle]
    /\ clock = 0

ChunkAddDocuments ==
    \E p \in DOMAIN calls :
        /\ Free(p)
        /\ \E docs \in ChunkBatches, o \in ChunkOptions :
               Apply(p, addDocumentsToChunking(documents, config, docs, o, clock))

ChunkStep ==
    \E p \in DOMAIN calls :
        /\ Chunking(p)
        /\ Apply(p, [call |-> chunkArrayStep(config, calls[p]), table |-> documents])

ChunkAnswer ==
    \E p \in DOMAIN calls :
        /\ Awaiting(p)
        /\ \E r \in {ProviderFailure} \cup ProviderAnswers(Len(Asked(p)), {<<1>>}) :
               ProviderAnswer(p, r)

NextChunk ==
    \/ ChunkAddDocuments
    \/ ChunkStep
    \/ ChunkAnswer
    \/ DoClear
    \/ DoReturn

SpecChunk == InitChunk /\ [][NextChunk]_vars

(* The loop runs on and every provider call returns. *)
SpecChunkFair == SpecChunk /\ WF_vars(ChunkStep) /\ WF_vars(ChunkAnswer)


(* Configuration accessors. *)

getEmbeddingModel(cfg) == cfg.embeddingModel
getDefaultBatchSize(cfg) == cfg.defaultBatchSize
getDefaultBatchDelay(cfg) == cfg.batchDelay

SetterCall(op, value, before) ==
    [pc |-> "done", op |-> op, value |-> value, before |-> before,
     outcome |-> "ok", error |-> NoError]

(* setEmbeddingModel(model): this.embeddingModel = model *)
setEmbeddingModel(cfg, model) ==
    [call |-> SetterCall("setEmbeddingModel", model, getEmbeddingModel(cfg)),
     cfg |-> [cfg EXCEPT !.embeddingModel = model]]

(* setDefaultBatchSize(batchSize): throws for batchSize <= 0 *)
setDefaultBatchSize(cfg, batchSize) ==
    LET call == SetterCall("setDefaultBatchSize", batchSize, getDefaultBatchSize(cfg))
    IN IF batchSize <= 0
       THEN [call |-> Failed(call, Error("Batch size must be greater than 0")), cfg |-> cfg]
       ELSE [call |-> call, cfg |-> [cfg EXCEPT !.defaultBatchSize = batchSize]]

(* setDefaultBatchDelay(delay): throws for delay < 0 *)
setDefaultBatchDelay(cfg, delay) ==
    LET call == SetterCall("setDefaultBatchDelay", delay, getDefaultBatchDelay(cfg))
    IN IF delay < 0
       THEN [call |-> Failed(call, Error("Batch delay cannot be negative")), cfg |-> cfg]
       ELSE [call |-> call, cfg |-> [cfg EXCEPT !.batchDelay = delay]]

Configure(p, r) ==
    /\ Free(p)
    /\ calls' = [calls EXCEPT ![p] = r.call]
    /\ config' = r.cfg
    /\ UNCHANGED <<documents, clock>>

(* SpecConfig: a store built from any options, and its setters. *)

ConfigNumbers == {-1, 0, 1, 2}
ConfigModels == {"", "m"}

InitConfig ==
    /\ documents = <<>>
    /\ config \in {constructor([openai |-> o, embeddingModel |-> m, defaultBatchSize |-> s,
                                batchDelay |-> d]) :
                      o \in BOOLEAN, m \in ConfigModels, s \in ConfigNumbers,
                      d \in ConfigNumbers}
    /\ calls = [p \in {"p"} |-> Idle]
    /\ clock = 0

DoSetEmbeddingModel ==
    \E p \in DOMAIN calls, m \in ConfigModels : Configure(p, setEmbeddingModel(config, m))

DoSetDefaultBatchSize ==
    \E p \in DOMAIN calls, n \in ConfigNumbers : Configure(p, setDefaultBatchSize(config, n))

DoSetDefaultBatchDelay ==
    \E p \in DOMAIN calls, d \in ConfigNumbers : Configure(p, setDefaultBatchDelay(config, d))

NextConfig ==
    \/ DoSetEmbeddingModel
    \/ DoSetDefaultBatchSize
    \/ DoSetDefaultBatchDelay
    \/ DoReturn

SpecConfig == InitConfig /\ [][NextConfig]_vars


(* SpecFilter: one caller of a store whose documents have a metadata        *)
(* object, an empty one, or none; searches with no filter, with the filter  *)
(* {} and with a filter of one key.                                         *)

EmptyObject == [key \in {} |-> ""]

FilterDocs ==
    {Doc(id, TextOf(id), Some(<<1, 0>>), m) :
        id \in Ids \cup {"c"},
        m \in {None, Some(EmptyObject), Some([category |-> "g"])}}

Filters == {EmptyObject, [category |-> "g"]}

FilterOptions ==
    {[PlainSearch EXCEPT !.metadataFilter = f] : f \in {None} \cup {Some(f) : f \in Filters}}

FilterAddDocument ==
    \E p \in DOMAIN calls :
        /\ Free(p)
        /\ \E doc \in FilterDocs : AddDocument(p, doc, [createEmbedding |-> None])

FilterSearch ==
    \E p \in DOMAIN calls :
        /\ Free(p)
        /\ \E o \in FilterOptions, op \in {"search", "searchWithPagination"} :
               Search(p, op, VectorQuery(<<1, 0>>), o)

FilterGetDocumentsByMetadata ==
    \E p \in DOMAIN calls, f \in Filters : GetDocumentsByMetadata(p, f)

NextFilter ==
    \/ FilterAddDocument
    \/ FilterSearch
    \/ FilterGetDocumentsByMetadata
    \/ DoRemoveDocument
    \/ DoReturn

SpecFilter == InitBatch /\ [][NextFilter]_vars


(* isEmpty(): this.documents.size === 0 *)
isEmpty(table) == size(table) = 0

(* SpecClear: one caller of a store whose defaults the setters change;     *)
(* documents with embeddings of three lengths come and go with clear().     *)

ClearVectors == {<<1>>, <<1, 0>>, <<1, 0, 0>>}

ClearDocs == {Brings(id, e) : id \in Ids, e \in ClearVectors}

ClearBatches == UNION {[1..n -> ClearDocs] : n \in 1..2}

ClearBatchOptions ==
    [createEmbedding |-> None, batchSize |-> None, batchDelay |-> None, onProgress |-> FALSE]

ClearAddDocument ==
    \E p \in DOMAIN calls :
        /\ Free(p)
        /\ \E doc \in ClearDocs : AddDocument(p, doc, [createEmbedding |-> None])

ClearAddDocuments ==
    \E p \in DOMAIN calls :
        /\ Free(p)
        /\ \E docs \in ClearBatches : AddDocuments(p, docs, ClearBatchOptions)

ClearSetDefaults ==
    \E p \in DOMAIN calls :
        \/ \E n \in {2} : Configure(p, setDefaultBatchSize(config, n))
        \/ \E d \in {0} : Configure(p, setDefaultBatchDelay(config, d))
        \/ \E m \in {"m"} : Configure(p, setEmbeddingModel(config, m))

NextClear ==
    \/ ClearAddDocument
    \/ ClearAddDocuments
    \/ ClearSetDefaults
    \/ DoClear
    \/ DoReturn

SpecClear == InitBatch /\ [][NextClear]_vars


-----------------------------------------------------------------------------
(* Properties. *)

Running(p) == calls[p].pc # "idle"
Succeeded(p) == calls[p].pc = "done" /\ calls[p].outcome = "ok"
Threw(p) == calls[p].pc = "done" /\ calls[p].outcome = "error"

(* p takes a step of its call: entering it, or resuming it from an await. *)
Acts(p) == calls'[p] # calls[p] /\ calls'[p].pc # "idle"

(* C1: any two documents held in the table have embeddings of the same      *)
(* length, in every state reached by addDocument, addDocuments,             *)
(* updateDocument, removeDocument and clear, with or without createEmbedding *)
(* and with calls that overlap across their provider awaits.                *)
C1_DimensionInvariant ==
    \A i, j \in DOMAIN documents :
        Len(documents[i].embedding) = Len(documents[j].embedding)

(* Two documents are held, and a call that awaited the provider while they  *)
(* were written was refused for the length of its generated embedding.      *)
C1_Witness ==
    /\ Len(documents) = 2
    /\ \E p \in DOMAIN calls :
           /\ Threw(p)
           /\ calls[p].op \in {"addDocument", "addDocuments"}
           /\ calls[p].error.got # calls[p].error.expected
           /\ calls[p].error.expected = Len(documents[1].embedding)
           /\ \E k \in DOMAIN calls[p].events : calls[p].events[k].type = "response"

createEmbeddingOf(call) == OrElse(call.options.createEmbedding, FALSE)

(* C2: addDocuments is all-or-nothing.  No step of a call that has not      *)
(* succeeded changes the table, whatever makes the call fail                *)
(* (pre-validation, the provider on any chunk, the generated dimensions,    *)
(* the dimensions across the batch); the step by which a call succeeds      *)
(* leaves every input document in the table.                                *)
C2_AllOrNothing ==
    [][\A p \in DOMAIN calls :
          (Acts(p) /\ calls'[p].op = "addDocuments") =>
              IF calls'[p].pc = "done" /\ calls'[p].outcome = "ok"
              THEN \A k \in DOMAIN calls'[p].documents :
                       hasDocument(documents', calls'[p].documents[k].id)
              ELSE documents' = documents]_vars

(* The provider failed on a later chunk of a call on a table that holds     *)
(* documents.                                                               *)
C2_Witness ==
    \E p \in DOMAIN calls :
        /\ Threw(p)
        /\ calls[p].op = "addDocuments"
        /\ calls[p].error.cause = "provider"
        /\ calls[p].error.index >= 2
        /\ Len(calls[p].generated) > 0
        /\ Len(documents) > 0

(* The defects pre-validation is to find, as the indices of the input. *)
EmptyId(docs, i) == docs[i].id = ""
RepeatedId(docs, i) == \E j \in DOMAIN docs : j # i /\ docs[j].id = docs[i].id
PresentId(table, docs, i) == hasDocument(table, docs[i].id)
NothingToEmbed(docs, i) == ~IsSome(docs[i].embedding) /\ docs[i].content = ""

Defects(table, docs, createEmbedding) ==
    {i \in DOMAIN docs :
        \/ EmptyId(docs, i)
        \/ RepeatedId(docs, i)
        \/ PresentId(table, docs, i)
        \/ createEmbedding /\ NothingToEmbed(docs, i)}

(* C3: addDocuments pre-validates before any embedding call.  A call whose  *)
(* input has a document with an empty id, a repeated id, an id present in   *)
(* the table or (createEmbedding) neither embedding nor content fails in    *)
(* its first step, with no provider call made and the table as it was; when *)
(* the first document refused is one with a repeated id, the error names    *)
(* its index and the index of the first other document with that id.        *)
C3_PreValidation ==
    [][\A p \in DOMAIN calls :
          (calls[p].pc = "idle" /\ Acts(p) /\ calls'[p].op = "addDocuments") =>
              \A call \in {calls'[p]} :
              \A bad \in {Defects(documents, call.documents, createEmbeddingOf(call))} :
                  bad # {} =>
                      /\ call.pc = "done"
                      /\ call.outcome = "error"
                      /\ call.events = <<>>
                      /\ documents' = documents
                      /\ \A first \in {Min(bad)} :
                             (/\ ~EmptyId(call.documents, first)
                              /\ RepeatedId(call.documents, first)
                              /\ \A j \in 1..(first - 1) :
                                     ~IsError(checkInputDocument(documents, call.documents, j,
                                                                 createEmbeddingOf(call))))
                             => /\ call.error.msg = "Duplicate document ID found at indices"
                                /\ call.error.index = first - 1
                                /\ call.error.other =
                                       Min({j \in DOMAIN call.documents :
                                               /\ j # first
                                               /\ call.documents[j].id
                                                      = call.documents[first].id}) - 1]_vars

(* A batch with a repeated id was refused on a table that holds documents,  *)
(* embeddings requested, the error naming both indices.                     *)
C3_Witness ==
    \E p \in DOMAIN calls :
        /\ Threw(p)
        /\ calls[p].op = "addDocuments"
        /\ createEmbeddingOf(calls[p])
        /\ calls[p].error.msg = "Duplicate document ID found at indices"
        /\ calls[p].error.index = 1
        /\ calls[p].error.other = 2
        /\ calls[p].events = <<>>
        /\ Len(documents) > 0

(* C4: addDocuments never replaces a document that is already in the table: *)
(* in the step by which a call succeeds, every id it writes was absent from *)
(* the table just before, also when another addDocuments, addDocument or    *)
(* updateDocument call ran while the call awaited the provider.             *)
C4_NeverReplaces ==
    [][\A p \in DOMAIN calls :
          (/\ Acts(p)
           /\ calls'[p].op = "addDocuments"
           /\ calls'[p].pc = "done"
           /\ calls'[p].outcome = "ok") =>
              \A k \in DOMAIN calls'[p].documents :
                  ~hasDocument(documents, calls'[p].documents[k].id)]_vars

(* What the events of an addDocuments call are measured against: the texts  *)
(* of the input documents without embedding in input order, the chunk size  *)
(* and delay in force, and the events of one kind.                          *)
Embedding(p) == Running(p) /\ calls[p].op = "addDocuments" /\ createEmbeddingOf(calls[p])

NeedingOf(call) == SelectSeq(call.documents, needsEmbedding)
TextsOf(call) == [i \in DOMAIN NeedingOf(call) |-> NeedingOf(call)[i].content]
batchSizeOf(call) == OrElse(call.options.batchSize, config.defaultBatchSize)
batchDelayOf(call) == OrElse(call.options.batchDelay, config.batchDelay)

EventsOf(call, type) ==
    LET ofType(e) == e.type = type
    IN SelectSeq(call.events, ofType)

Ceil(n, b) == (n + b - 1) \div b

ChunkOf(texts, b, k) == SubSeq(texts, (k - 1) * b + 1, Min2(k * b, Len(texts)))

ProviderFailed(call) == \E e \in DOMAIN call.events : call.events[e].type = "failure"

(* C5: chunking.  With n > 0 documents needing embeddings and batch size    *)
(* b > 0 the k-th provider call receives texts (k-1)*b+1 .. min(k*b, n) in  *)
(* input order; a call that no provider failure cut short has made exactly  *)
(* ceil(n/b) provider calls; a delay of batchDelay (when > 0) follows every  *)
(* answered provider call but the last and comes before the next call; and  *)
(* a call that succeeded has all its input documents in the table.          *)
C5_Chunking ==
    \A p \in DOMAIN calls :
        (Embedding(p) /\ calls[p].events # <<>>) =>
            LET call == calls[p]
                texts == TextsOf(call)
                b == batchSizeOf(call)
                chunks == Ceil(Len(texts), b)
                embeds == EventsOf(call, "embed")
                answers == EventsOf(call, "response")
                delays == EventsOf(call, "delay")
            IN /\ Len(texts) > 0 /\ b > 0
               /\ Len(embeds) <= chunks
               /\ \A k \in DOMAIN embeds : embeds[k].texts = ChunkOf(texts, b, k)
               /\ (call.pc = "done" /\ ~ProviderFailed(call)) => Len(embeds) = chunks
               /\ Len(delays) = IF batchDelayOf(call) > 0
                                THEN Min2(Len(answers), chunks - 1) ELSE 0
               /\ \A e \in DOMAIN call.events :
                      call.events[e].type = "delay" =>
                          /\ call.events[e].ms = batchDelayOf(call)
                          /\ e < Len(call.events) /\ call.events[e + 1].type = "embed"
                          /\ call.events[e - 1].type \in {"response", "progress"}
               /\ Succeeded(p) =>
                      \A k \in DOMAIN call.documents :
                          hasDocument(documents, call.documents[k].id)

(* Three documents needing embeddings went in with batch size 2 and the     *)
(* default delay: two provider calls, one delay between them.               *)
C5_Witness ==
    \E p \in DOMAIN calls :
        /\ Embedding(p) /\ Succeeded(p)
        /\ Len(TextsOf(calls[p])) = 3
        /\ batchSizeOf(calls[p]) = 2
        /\ Len(EventsOf(calls[p], "embed")) = 2
        /\ Len(EventsOf(calls[p], "embed")[2].texts) = 1
        /\ EventsOf(calls[p], "delay") = <<DelayEvent(DefaultBatchDelay)>>
        /\ Len(documents) = 3

RECURSIVE TextsSent(_, _)
TextsSent(embeds, k) == IF k = 0 THEN 0 ELSE TextsSent(embeds, k - 1) + Len(embeds[k].texts)

(* C6: progress reporting.  With onProgress supplied it is called once per  *)
(* chunk, right after that chunk's provider call returned and so before the *)
(* next chunk's call, with processed the number of texts embedded so far    *)
(* and total the number of documents needing embeddings; processed grows    *)
(* strictly, the last call of a run through all chunks is                   *)
(* onProgress(total, total), and a chunk whose provider call failed gets    *)
(* no call.                                                                 *)
C6_Progress ==
    \A p \in DOMAIN calls :
        (Embedding(p) /\ calls[p].options.onProgress) =>
            LET call == calls[p]
                total == Len(NeedingOf(call))
                embeds == EventsOf(call, "embed")
                answers == EventsOf(call, "response")
                reports == EventsOf(call, "progress")
            IN /\ Len(reports) = Len(answers)
               /\ \A e \in DOMAIN call.events :
                      /\ call.events[e].type = "response" =>
                             e < Len(call.events) /\ call.events[e + 1].type = "progress"
                      /\ call.events[e].type = "progress" =>
                             call.events[e - 1].type = "response"
                      /\ call.events[e].type = "failure" =>
                             e = Len(call.events) /\ call.events[e - 1].type = "embed"
               /\ \A k \in DOMAIN reports :
                      /\ reports[k].processed = TextsSent(embeds, k)
                      /\ reports[k].total = total
                      /\ k > 1 => reports[k].processed > reports[k - 1].processed
               /\ (call.pc = "done" /\ call.events # <<>> /\ ~ProviderFailed(call)) =>
                      reports[Len(reports)] = ProgressEvent(total, total)

(* Three documents went through two chunks with onProgress: it was called   *)
(* with (2, 3) and then with (3, 3).                                        *)
C6_Witness ==
    \E p \in DOMAIN calls :
        /\ Embedding(p) /\ Succeeded(p)
        /\ calls[p].options.onProgress
        /\ EventsOf(calls[p], "progress") = <<ProgressEvent(2, 3), ProgressEvent(3, 3)>>

Range(seq) == {seq[k] : k \in DOMAIN seq}

(* The vector the provider tagged for the i-th text of the call: the text   *)
(* is number (i-1) % b of request (i-1) \div b + 1.                         *)
TaggedFor(call, i) ==
    LET b == batchSizeOf(call)
        answer == EventsOf(call, "response")[((i - 1) \div b) + 1].data
    IN {item.embedding : item \in {t \in Range(answer) : t.index = (i - 1) % b}}

(* C7: embedding-to-document association.  After a successful addDocuments  *)
(* with createEmbedding the i-th document that needed an embedding is       *)
(* stored with the vector the provider tagged for the i-th text, in         *)
(* whatever order the provider returned the items of a response, and a      *)
(* document that carried its own embedding is stored with that embedding.   *)
C7_Association ==
    \A p \in DOMAIN calls :
        (Embedding(p) /\ Succeeded(p)) =>
            LET call == calls[p]
                needing == NeedingOf(call)
            IN /\ \A i \in DOMAIN needing :
                      /\ hasDocument(documents, needing[i].id)
                      /\ TaggedFor(call, i)
                             = {Get(getDocument(documents, needing[i].id)).embedding}
               /\ \A k \in DOMAIN call.documents :
                      bringsEmbedding(call.documents[k]) =>
                          /\ hasDocument(documents, call.documents[k].id)
                          /\ Get(getDocument(documents, call.documents[k].id)).embedding
                                 = Get(call.documents[k].embedding)

(* A document with its own embedding and two needing one went in; the       *)
(* provider returned the two items in reverse, with different vectors.      *)
C7_Witness ==
    \E p \in DOMAIN calls :
        /\ Embedding(p) /\ Succeeded(p)
        /\ Len(NeedingOf(calls[p])) = 2
        /\ Len(calls[p].documents) = 3
        /\ LET answer == EventsOf(calls[p], "response")[1].data
           IN /\ Len(answer) = 2
              /\ answer[1].index = 1 /\ answer[2].index = 0
              /\ answer[1].embedding # answer[2].embedding

Searching(p) == Running(p) /\ calls[p].op \in {"search", "searchWithPagination"}

(* C8: search and searchWithPagination on an empty table return an empty    *)
(* result (searchWithPagination with totalResults 0 and totalPages 0) and   *)
(* raise no error, for every non-empty query vector and every options       *)
(* value.                                                                   *)
C8_EmptyTableSearch ==
    [][\A p \in DOMAIN calls :
          (/\ calls[p].pc = "idle" /\ Acts(p)
           /\ calls'[p].op \in {"search", "searchWithPagination"}
           /\ calls'[p].query.kind = "vector"
           /\ calls'[p].query.vector # <<>>
           /\ documents = <<>>) =>
              /\ calls'[p].pc = "done"
              /\ calls'[p].outcome = "ok"
              /\ calls'[p].op = "search" => calls'[p].result = <<>>
              /\ calls'[p].op = "searchWithPagination" =>
                     /\ calls'[p].result.data = <<>>
                     /\ calls'[p].result.totalResults = 0
                     /\ calls'[p].result.totalPages = 0]_vars

(* A paginated search for a vector, page and filter given, returned on an   *)
(* empty table.                                                             *)
C8_Witness ==
    \E p \in DOMAIN calls :
        /\ Searching(p) /\ Succeeded(p)
        /\ calls[p].op = "searchWithPagination"
        /\ calls[p].query = VectorQuery(<<1, 0>>)
        /\ IsSome(calls[p].options.page)
        /\ IsSome(calls[p].options.metadataFilter)
        /\ calls[p].result.totalPages = 0
        /\ documents = <<>>

(* C9: search with an empty query vector on a table that holds documents    *)
(* fails with 'Query embedding must be provided and non-empty', for every   *)
(* options value, and leaves the table unchanged.                           *)
C9_EmptyQueryVector ==
    [][\A p \in DOMAIN calls :
          (/\ calls[p].pc = "idle" /\ Acts(p)
           /\ calls'[p].op = "search"
           /\ calls'[p].query = VectorQuery(<<>>)
           /\ documents # <<>>) =>
              /\ calls'[p].pc = "done"
              /\ calls'[p].outcome = "error"
              /\ calls'[p].error.msg = "Query embedding must be provided and non-empty"
              /\ documents' = documents]_vars

(* A search with an empty vector, limit and filter given, was refused on a  *)
(* table of two documents.                                                  *)
C9_Witness ==
    \E p \in DOMAIN calls :
        /\ Threw(p)
        /\ calls[p].op = "search"
        /\ calls[p].query = VectorQuery(<<>>)
        /\ IsSome(calls[p].options.limit)
        /\ IsSome(calls[p].options.metadataFilter)
        /\ Len(documents) = 2

(* The embedding a successful addDocument leaves with the document: its     *)
(* own, or the one the provider answered.                                   *)
EmbeddingOf(call) ==
    IF IsSome(call.document.embedding) THEN Get(call.document.embedding)
    ELSE EventsOf(call, "response")[1].data[1].embedding

(* p completes a write or a removal of id in this step. *)
Writes(p, id) ==
    /\ Acts(p)
    /\ calls'[p].pc = "done"
    /\ \/ calls'[p].op \in {"addDocument", "updateDocument"} /\ calls'[p].document.id = id
       \/ calls'[p].op = "removeDocument" /\ calls'[p].id = id
       \/ calls'[p].op = "clear"

(* C10: add/get round trip.  When addDocument(doc) succeeds,                *)
(* getDocument(doc.id) returns a document with the id, content, embedding   *)
(* and metadata of doc (the generated embedding where doc brought none) and *)
(* hasDocument(doc.id) is true; and what getDocument returns for an id      *)
(* changes only in a step that writes or removes that id.                   *)
C10_AddGetRoundTrip ==
    [][/\ \A p \in DOMAIN calls :
              (/\ Acts(p)
               /\ calls'[p].op = "addDocument"
               /\ calls'[p].pc = "done"
               /\ calls'[p].outcome = "ok") =>
                  LET doc == calls'[p].document
                      got == getDocument(documents', doc.id)
                  IN /\ hasDocument(documents', doc.id)
                     /\ IsSome(got)
                     /\ Get(got).id = doc.id
                     /\ Get(got).content = doc.content
                     /\ Get(got).metadata = doc.metadata
                     /\ Get(got).embedding = EmbeddingOf(calls'[p])
       /\ \A id \in Ids :
              getDocument(documents', id) # getDocument(documents, id) =>
                  \E p \in DOMAIN calls : Writes(p, id)]_vars

(* A document with metadata and its own embedding was added next to         *)
(* another one, and getDocument returns it.                                 *)
C10_Witness ==
    \E p \in DOMAIN calls :
        /\ Succeeded(p)
        /\ calls[p].op = "addDocument"
        /\ IsSome(calls[p].document.metadata)
        /\ calls[p].document.embedding = Some(<<1, 0>>)
        /\ Len(documents) = 2
        /\ Get(getDocument(documents, calls[p].document.id)).metadata
               = calls[p].document.metadata
        /\ Get(getDocument(documents, calls[p].document.id)).embedding = <<1, 0>>

(* C11: createdAt is set once: for every id, from the step that first       *)
(* inserts a document with that id and as long as the id stays in the       *)
(* table, the stored createdAt does not change, whatever addDocument,       *)
(* addDocuments and updateDocument calls are applied to the id (a second    *)
(* addDocument with the same id and no createdAt field among them).         *)
C11_CreatedAtImmutable ==
    [][\A id \in Ids :
          (hasDocument(documents, id) /\ hasDocument(documents', id)) =>
              Get(getDocument(documents', id)).createdAt
                  = Get(getDocument(documents, id)).createdAt]_vars

(* The document validated and stored by a single-document call that got as  *)
(* far as having an embedding.                                              *)
HasFinal(call) ==
    \/ IsSome(call.document.embedding)
    \/ \E e \in DOMAIN call.events :
           call.events[e].type = "response" /\ call.events[e].data # <<>>

FinalOf(call) == [call.document EXCEPT !.embedding = Some(EmbeddingOf(call))]

(* C12: updateDocument on an id present in the table validates the          *)
(* document and checks its embedding length against the table dimension as  *)
(* addDocument does (same outcome, same error); on success it returns true, *)
(* the stored document has the new content, embedding and metadata, the     *)
(* createdAt of the previous version and updatedAt set to the current time, *)
(* and no other document changes; on an error the table is unchanged.       *)
C12_UpdateDocument ==
    [][\A p \in DOMAIN calls :
          (/\ Acts(p)
           /\ calls'[p].op = "updateDocument"
           /\ calls'[p].pc = "done"
           /\ hasDocument(documents, calls'[p].document.id)) =>
              \A call \in {calls'[p]} :
                  /\ HasFinal(call) =>
                         \A asAdd \in {addDocumentStore(documents, call, FinalOf(call),
                                                        clock).call} :
                             /\ call.outcome = asAdd.outcome
                             /\ call.error = asAdd.error
                  /\ call.outcome = "error" => documents' = documents
                  /\ call.outcome = "ok" =>
                         /\ call.result = TRUE
                         /\ Len(documents') = Len(documents)
                         /\ \A k \in DOMAIN documents :
                                IF documents[k].id = call.document.id
                                THEN /\ documents'[k].id = call.document.id
                                     /\ documents'[k].content = call.document.content
                                     /\ documents'[k].metadata = call.document.metadata
                                     /\ documents'[k].embedding = EmbeddingOf(call)
                                     /\ documents'[k].createdAt = documents[k].createdAt
                                     /\ documents'[k].updatedAt = clock
                                     /\ documents'[k].updatedAt >= documents[k].updatedAt
                                ELSE documents'[k] = documents[k]]_vars

(* A document stored earlier was updated, next to another one, with new     *)
(* content, embedding and metadata, and keeps its createdAt.                *)
C12_Witness ==
    \E p \in DOMAIN calls :
        /\ Succeeded(p)
        /\ calls[p].op = "updateDocument"
        /\ calls[p].result = TRUE
        /\ Len(documents) = 2
        /\ \A d \in {Get(getDocument(documents, calls[p].document.id))} :
               /\ d.content = "new" /\ d.embedding = <<2>> /\ d.metadata = Tagged
               /\ d.createdAt < d.updatedAt

Without(table, id) ==
    LET other(doc) == doc.id # id
    IN SelectSeq(table, other)

(* C13: not-found signalling.  updateDocument and removeDocument with an id *)
(* that is not in the table return false and raise no error (also for a     *)
(* document that is otherwise invalid), make no provider call and leave the *)
(* table unchanged; removeDocument of a present id returns true, removes    *)
(* that id and leaves every other document unchanged.                       *)
C13_NotFound ==
    [][\A p \in DOMAIN calls :
          (calls[p].pc = "idle" /\ Acts(p)) =>
              \A call \in {calls'[p]} :
                  /\ (/\ call.op = "updateDocument"
                      /\ ~hasDocument(documents, call.document.id)) =>
                         /\ call.pc = "done" /\ call.outcome = "ok"
                         /\ call.result = FALSE
                         /\ call.events = <<>>
                         /\ documents' = documents
                  /\ call.op = "removeDocument" =>
                         /\ call.pc = "done" /\ call.outcome = "ok"
                         /\ call.result = hasDocument(documents, call.id)
                         /\ ~hasDocument(documents, call.id) => documents' = documents
                         /\ hasDocument(documents, call.id) =>
                                /\ ~hasDocument(documents', call.id)
                                /\ documents' = Without(documents, call.id)
                                /\ Len(documents') = Len(documents) - 1]_vars

(* An update with a document whose embedding is not finite, createEmbedding *)
(* given, returned false on a table that holds two other documents.         *)
C13_Witness ==
    \E p \in DOMAIN calls :
        /\ Succeeded(p)
        /\ calls[p].op = "updateDocument"
        /\ calls[p].result = FALSE
        /\ calls[p].document.embedding = Some(<<NonFinite>>)
        /\ IsSome(calls[p].options.createEmbedding)
        /\ ~hasDocument(documents, calls[p].document.id)
        /\ Len(documents) = 2

(* C14: the table-wide dimension is fixed by the first stored document: it  *)
(* is null while no document was stored, and once it is a number d it stays *)
(* d in every step that is not a clear(); no removeDocument, addDocument,   *)
(* addDocuments or updateDocument makes it null again or changes it.        *)
C14_DimensionFixed ==
    [][/\ documents = <<>> <=> ~IsSome(getEmbeddingDimensions(documents))
       /\ IsSome(getEmbeddingDimensions(documents)) =>
              \/ getEmbeddingDimensions(documents') = getEmbeddingDimensions(documents)
              \/ \E p \in DOMAIN calls : Acts(p) /\ calls'[p].op = "clear"]_vars

(* C15: dimension mismatch on insert.  When the table holds documents of    *)
(* dimension d and addDocument comes to store an otherwise valid document   *)
(* (non-empty id, non-empty finite embedding, its own or the generated one) *)
(* whose embedding has length e # d, the call fails with the dimension      *)
(* error reporting e as the document's length and d as the table's, and the *)
(* table is unchanged.                                                      *)
C15_DimensionMismatch ==
    [][\A p \in DOMAIN calls :
           (/\ Acts(p)
            /\ calls'[p].pc = "done"
            /\ calls'[p].op = "addDocument"
            /\ HasFinal(calls'[p])
            /\ Len(documents) > 0) =>
               \A final \in {FinalOf(calls'[p])} :
                   (/\ final.id # ""
                    /\ Len(Get(final.embedding)) > 0
                    /\ \A k \in DOMAIN Get(final.embedding) :
                           isFinite(Get(final.embedding)[k])
                    /\ Len(Get(final.embedding)) # Len(documents[1].embedding)) =>
                       /\ calls'[p].outcome = "error"
                       /\ calls'[p].error.msg
                              = "Document embedding dimensions don't match existing documents"
                       /\ calls'[p].error.got = Len(Get(final.embedding))
                       /\ calls'[p].error.expected = Len(documents[1].embedding)
                       /\ documents' = documents]_vars

(* An addDocument of a 2-element embedding was refused by a table of        *)
(* dimension 1, reporting 2 and 1.                                          *)
C15_Witness ==
    \E p \in DOMAIN calls :
        /\ calls[p].pc = "done"
        /\ calls[p].op = "addDocument"
        /\ calls[p].outcome = "error"
        /\ calls[p].document.id # ""
        /\ calls[p].document.embedding = Some(<<1, 0>>)
        /\ calls[p].error.got = 2
        /\ calls[p].error.expected = 1
        /\ Len(documents) > 0
        /\ Len(documents[1].embedding) = 1

(* A search call that returned its result. *)
Found(p, op) ==
    /\ calls[p].pc = "done"
    /\ calls[p].op = op
    /\ calls[p].outcome = "ok"

(* The query vector of a search call: the one given, or the one the         *)
(* provider answered for the text.                                          *)
QueryEmbeddingOf(call) ==
    IF call.query.kind = "vector" THEN call.query.vector
    ELSE EventsOf(call, "response")[1].data[1].embedding

(* The score of a stored document against the query of the call. *)
ScoreOf(call, doc) ==
    calculateSimilarity(QueryEmbeddingOf(call), doc.embedding,
                        OrElse(call.options.similarityMethod, "cosine"))

(* The positions in the table of the documents that pass the filter of the  *)
(* call, can be scored against its query and reach its threshold.           *)
Qualifying(call) ==
    {k \in DOMAIN documents :
        /\ IsSome(call.options.metadataFilter) =>
               \E m \in DOMAIN filterByMetadata(documents, Get(call.options.metadataFilter)) :
                   filterByMetadata(documents, Get(call.options.metadataFilter))[m]
                       = documents[k]
        /\ Len(documents[k].embedding) = Len(QueryEmbeddingOf(call))
        /\ ScoreGE(ScoreOf(call, documents[k]),
                   OrElse(call.options.threshold, Number(0, 1)))}

(* The complete list the claim speaks of has these entries, each once. *)
ListsQualifying(call, list) ==
    /\ \A i \in DOMAIN list :
           \E k \in Qualifying(call) :
               /\ list[i].document = documents[k]
               /\ list[i].similarity = ScoreOf(call, documents[k])
    /\ \A i, j \in DOMAIN list : i # j => list[i].document.id # list[j].document.id

NonIncreasing(list) ==
    \A i, j \in DOMAIN list : i < j => ScoreGE(list[i].similarity, list[j].similarity)

(* C16: result set of search without pageSize, for a limit that is a        *)
(* natural number or absent (10).  The result holds only documents of the   *)
(* table that pass the metadata filter, if given, and whose score against   *)
(* the query is >= threshold (default 0), each with its score and none      *)
(* twice; it is ordered by non-increasing score; its length is the smaller  *)
(* of limit and the number of such documents; and no such document left out *)
(* has a score strictly higher than a returned one.                         *)
C16_ResultSet ==
    \A p \in DOMAIN calls :
        (/\ Found(p, "search")
         /\ ~IsSome(calls[p].options.pageSize)
         /\ OrElse(calls[p].options.limit, DefaultLimit) >= 0) =>
            \A call \in {calls[p]} :
                /\ ListsQualifying(call, call.result)
                /\ NonIncreasing(call.result)
                /\ Len(call.result) = Min2(OrElse(call.options.limit, 10),
                                           Cardinality(Qualifying(call)))
                /\ \A k \in Qualifying(call) :
                       (\A i \in DOMAIN call.result :
                            call.result[i].document # documents[k]) =>
                           \A i \in DOMAIN call.result :
                               ScoreGE(call.result[i].similarity,
                                       ScoreOf(call, documents[k]))

(* A search with limit 2, a filter and a threshold returned two of the      *)
(* three qualifying documents, in an order other than the table's.          *)
C16_Witness ==
    \E p \in DOMAIN calls :
        /\ Found(p, "search")
        /\ ~IsSome(calls[p].options.pageSize)
        /\ calls[p].options.limit = Some(2)
        /\ IsSome(calls[p].options.metadataFilter)
        /\ IsSome(calls[p].options.threshold)
        /\ Cardinality(Qualifying(calls[p])) = 3
        /\ Len(calls[p].result) = 2
        /\ calls[p].result[1].document = documents[2]

(* The complete sorted list of qualifying results of a search call: what    *)
(* the same search gives with no pageSize and a limit of the table's size.  *)
CompleteOf(call) ==
    searchResults(documents, QueryEmbeddingOf(call),
                  [call.options EXCEPT !.page = None, !.pageSize = None,
                                       !.limit = Some(Len(documents))])

(* Page j of the search of the call, on the same table. *)
PageOf(call, j) ==
    searchResults(documents, QueryEmbeddingOf(call), [call.options EXCEPT !.page = Some(j)])

RECURSIVE PagesTo(_, _)
PagesTo(call, n) == IF n = 0 THEN <<>> ELSE PagesTo(call, n - 1) \o PageOf(call, n)

(* C17: pagination law of search.  For a fixed table, query, filter,        *)
(* threshold and method and a pageSize k >= 1, page j >= 1 is the j-th run  *)
(* of k entries of the complete sorted list of qualifying results, so that  *)
(* pages 1, 2, 3, ... concatenated give that list exactly; every page       *)
(* before the last non-empty one has k results and every page after it is   *)
(* empty.                                                                   *)
C17_PaginationLaw ==
    \A p \in DOMAIN calls :
        (/\ Found(p, "search")
         /\ Len(documents) > 0
         /\ IsSome(calls[p].options.pageSize)
         /\ OrElse(calls[p].options.page, 1) >= 1) =>
            \A call \in {calls[p]} :
            \A complete \in {CompleteOf(call)} :
                LET k == Get(call.options.pageSize)
                    j == OrElse(call.options.page, 1)
                    n == Len(complete)
                IN /\ ListsQualifying(call, complete)
                   /\ n = Cardinality(Qualifying(call))
                   /\ NonIncreasing(complete)
                   /\ call.result = PageOf(call, j)
                   /\ call.result = SubSeq(complete, (j - 1) * k + 1, Min2(j * k, n))
                   /\ PagesTo(call, MaxPage) = complete
                   /\ \A i \in 1..MaxPage :
                          /\ i * k < n => Len(PageOf(call, i)) = k
                          /\ (i - 1) * k >= n => Len(PageOf(call, i)) = 0
                          /\ ((i - 1) * k < n /\ n <= i * k) =>
                                 Len(PageOf(call, i)) = n - (i - 1) * k

(* Page 2 of size 2 of a search with three qualifying documents returned    *)
(* the one result left.                                                     *)
C17_Witness ==
    \E p \in DOMAIN calls :
        /\ Found(p, "search")
        /\ calls[p].options.pageSize = Some(2)
        /\ calls[p].options.page = Some(2)
        /\ Len(documents) = 3
        /\ Cardinality(Qualifying(calls[p])) = 3
        /\ Len(calls[p].result) = 1
        /\ Len(PageOf(calls[p], 1)) = 2
        /\ Len(PageOf(calls[p], 3)) = 0

(* The page of a returned search or searchWithPagination call. *)
DataOf(call) == IF call.op = "search" THEN call.result ELSE call.result.data

(* C18: out-of-range pages.  For every pageSize k >= 1 and every integer    *)
(* page outside 1..ceil(totalResults / k), beyond the end, 0 or negative,   *)
(* search and searchWithPagination return an empty slice and raise no       *)
(* error.                                                                   *)
C18_OutOfRangePages ==
    \A p \in DOMAIN calls :
        (/\ calls[p].pc = "done"
         /\ calls[p].op \in {"search", "searchWithPagination"}
         /\ calls[p].query.kind = "vector"
         /\ Len(documents) > 0
         /\ IsSome(calls[p].options.pageSize)
         /\ IsSome(calls[p].options.page)) =>
            \A call \in {calls[p]} :
                LET k == Get(call.options.pageSize)
                    totalResults == Cardinality(Qualifying(call))
                IN Get(call.options.page) \notin 1..Ceil(totalResults, k) =>
                       /\ call.outcome = "ok"
                       /\ DataOf(call) = <<>>

(* C19: searchWithPagination runs the same pipeline as search.  For the     *)
(* same table, query and options, with page p (default 1) and pageSize      *)
(* k >= 1 (default 10), its result list equals search(query, options with   *)
(* pageSize k and page p); totalResults is the number of documents passing  *)
(* filter and threshold, whatever p and k; totalPages is                    *)
(* ceil(totalResults / k); and page and pageSize are echoed.                *)
C19_SamePipeline ==
    \A p \in DOMAIN calls :
        Found(p, "searchWithPagination") =>
            \A call \in {calls[p]} :
                LET page == OrElse(call.options.page, 1)
                    k == OrElse(call.options.pageSize, 10)
                IN IF Len(documents) = 0
                   THEN call.result = [data |-> <<>>, page |-> page, pageSize |-> k,
                                       totalResults |-> 0, totalPages |-> 0]
                   ELSE
                   /\ call.result.data
                          = searchResults(documents, QueryEmbeddingOf(call),
                                          [call.options EXCEPT !.page = Some(page),
                                                               !.pageSize = Some(k)])
                   /\ call.result.totalResults = Cardinality(Qualifying(call))
                   /\ call.result.totalPages = Ceil(Cardinality(Qualifying(call)), k)
                   /\ call.result.page = page
                   /\ call.result.pageSize = k

(* searchWithPagination returned page 2 of size 1 of two results that pass  *)
(* a filter and a threshold, in a table of three documents.                 *)
C19_Witness ==
    \E p \in DOMAIN calls :
        /\ Found(p, "searchWithPagination")
        /\ Len(documents) = 3
        /\ IsSome(calls[p].options.metadataFilter)
        /\ IsSome(calls[p].options.threshold)
        /\ calls[p].options.page = Some(2)
        /\ calls[p].options.pageSize = Some(1)
        /\ calls[p].result.totalResults = 2
        /\ calls[p].result.totalPages = 2
        /\ Len(calls[p].result.data) = 1

(* Two metadata values are equal: the same string, or arrays of the same    *)
(* items.                                                                   *)
EqualValue(key, a, b) == IF key \in ArrayKeys THEN a.items = b.items ELSE a = b

Matches(doc, filter) ==
    /\ IsSome(doc.metadata)
    /\ \A key \in DOMAIN filter :
           /\ key \in DOMAIN Get(doc.metadata)
           /\ EqualValue(key, Get(doc.metadata)[key], filter[key])

(* C20: metadata filter.  With a non-empty filter, a document is returned   *)
(* by getDocumentsByMetadata, and is a candidate of search, if and only if  *)
(* it has metadata and, for every (key, value) pair of the filter, its      *)
(* metadata has that key with an equal value; documents without metadata or *)
(* lacking a filter key never match; and the results of a search under a    *)
(* filter are among getDocumentsByMetadata(filter).                         *)
C20_MetadataFilter ==
    \A p \in DOMAIN calls :
        /\ (calls[p].pc = "done" /\ calls[p].op = "getDocumentsByMetadata") =>
               \A k \in DOMAIN documents :
                   (\E i \in DOMAIN calls[p].result : calls[p].result[i] = documents[k])
                       <=> Matches(documents[k], calls[p].filter)
        /\ (/\ \/ Found(p, "search")
               \/ Found(p, "searchWithPagination")
            /\ Len(documents) > 0
            /\ IsSome(calls[p].options.metadataFilter)) =>
               \A call \in {calls[p]} :
               \A filter \in {Get(call.options.metadataFilter)} :
                   /\ \A i \in DOMAIN DataOf(call) :
                          /\ Matches(DataOf(call)[i].document, filter)
                          /\ \E m \in DOMAIN getDocumentsByMetadata(documents, filter) :
                                 getDocumentsByMetadata(documents, filter)[m]
                                     = DataOf(call)[i].document
                   /\ \A k \in DOMAIN documents :
                          (/\ Matches(documents[k], filter)
                           /\ Len(documents[k].embedding) = Len(QueryEmbeddingOf(call))
                           /\ ~IsSome(call.options.threshold)) =>
                              \E i \in DOMAIN CompleteOf(call) :
                                  CompleteOf(call)[i].document = documents[k]

(* The search that findMostSimilar(query, method) is compared with:         *)
(* search(query, {limit: 1, similarityMethod: method}).                     *)
SearchOfFind(call) ==
    [call EXCEPT !.op = "search",
                 !.options = [limit |-> Some(1), threshold |-> None,
                              similarityMethod |->
                                  Some(OrElse(call.similarityMethod, "cosine")),
                              metadataFilter |-> None, page |-> None,
                              pageSize |-> None]]

(* C21: findMostSimilar(query, method) returns the first element of         *)
(* search(query, {limit: 1, similarityMethod: method}) and null exactly     *)
(* when that result is empty: the returned document is in the table, its    *)
(* score by that method is >= 0 and no document of the table has a strictly *)
(* higher score; null is returned exactly when no document has a score      *)
(* >= 0.                                                                    *)
C21_FindMostSimilar ==
    \A p \in DOMAIN calls :
        Found(p, "findMostSimilar") =>
            \A call \in {calls[p]} :
            \A asked \in {SearchOfFind(calls[p])} :
                IF Len(documents) = 0 THEN call.result = None
                ELSE \A results \in {searchResults(documents, QueryEmbeddingOf(call),
                                                   asked.options)} :
                         /\ Len(results) = 0 <=> call.result = None
                         /\ Len(results) > 0 => call.result = Some(results[1])
                         /\ call.result = None <=> Qualifying(asked) = {}
                         /\ IsSome(call.result) =>
                                /\ \E k \in Qualifying(asked) :
                                       /\ Get(call.result).document = documents[k]
                                       /\ Get(call.result).similarity
                                              = ScoreOf(asked, documents[k])
                                /\ \A k \in Qualifying(asked) :
                                       ScoreGE(Get(call.result).similarity,
                                               ScoreOf(asked, documents[k]))

(* findMostSimilar by dot product returned the second of three documents,   *)
(* which is not the nearest by cosine.                                      *)
C21_Witness ==
    \E p \in DOMAIN calls :
        /\ Found(p, "findMostSimilar")
        /\ Len(documents) = 3
        /\ calls[p].similarityMethod = Some("dot")
        /\ IsSome(calls[p].result)
        /\ Get(calls[p].result).document = documents[2]
        /\ documents[1].embedding = calls[p].query.vector

(* findMostSimilar returned null on a table whose documents all score below *)
(* 0 against the query.                                                     *)
C21_WitnessNull ==
    \E p \in DOMAIN calls :
        /\ Found(p, "findMostSimilar")
        /\ Len(documents) > 0
        /\ calls[p].query.kind = "vector"
        /\ Len(calls[p].query.vector) = Len(documents[1].embedding)
        /\ calls[p].result = None

(* C22: exclusive ownership of stored documents.  The table content changes *)
(* only in a step of addDocument, addDocuments, updateDocument,             *)
(* removeDocument or clear: a write of the caller to the object or          *)
(* embedding array it passed to addDocument, or to an object returned by    *)
(* getDocument, getAllDocuments or search, does not change what the table   *)
(* holds, and the embeddings in the table keep one length.                  *)
C22_ExclusiveOwnership ==
    [][/\ documents' # documents =>
              \E p \in DOMAIN calls :
                  /\ calls[p].pc \in {"idle", "await"}
                  /\ Acts(p)
                  /\ calls'[p].op \in {"addDocument", "addDocuments", "updateDocument",
                                       "removeDocument", "clear"}
       /\ \A i, j \in DOMAIN documents' :
              Len(documents'[i].embedding) = Len(documents'[j].embedding)]_vars

(* C23: single-document insert overwrites silently.  When addDocument comes *)
(* to store a valid document (non-empty id, non-empty finite embedding of   *)
(* the table's dimension) whose id is in the table, it succeeds, the table  *)
(* then holds the new content, embedding and metadata under that id, and    *)
(* size() and every other document are unchanged; and in every state size() *)
(* is the number of distinct ids for which hasDocument is true.             *)
C23_SilentOverwrite ==
    [][/\ size(documents) = Cardinality({id \in Ids \cup {""} : hasDocument(documents, id)})
       /\ size(documents') = Cardinality({id \in Ids \cup {""} : hasDocument(documents', id)})
       /\ \A p \in DOMAIN calls :
              (/\ Acts(p)
               /\ calls'[p].pc = "done"
               /\ calls'[p].op = "addDocument"
               /\ HasFinal(calls'[p])) =>
                  \A final \in {FinalOf(calls'[p])} :
                      (/\ validateDocument(final) = NoError
                       /\ hasDocument(documents, final.id)
                       /\ Len(Get(final.embedding)) = Len(documents[1].embedding)) =>
                          /\ calls'[p].outcome = "ok"
                          /\ size(documents') = size(documents)
                          /\ \A k \in DOMAIN documents :
                                 IF documents[k].id = final.id
                                 THEN /\ documents'[k].id = final.id
                                      /\ documents'[k].content = final.content
                                      /\ documents'[k].embedding = Get(final.embedding)
                                      /\ documents'[k].metadata = final.metadata
                                 ELSE documents'[k] = documents[k]]_vars

(* addDocument has replaced the document that was stored first: it now has  *)
(* the new content and metadata, and the table still holds two documents.   *)
C23_Witness ==
    \E p \in DOMAIN calls :
        /\ calls[p].pc = "done"
        /\ calls[p].op = "addDocument"
        /\ calls[p].outcome = "ok"
        /\ size(documents) = 2
        /\ calls[p].document.id = documents[1].id
        /\ documents[1].content = "new"
        /\ documents[1].metadata = Tagged
        /\ documents[1].createdAt > documents[2].createdAt

(* The number of characters of the JSON text of the metadata of a stored    *)
(* document: {} when absent, else {"category":"g"}, {"category":"h"},       *)
(* {"category":"g","lang":"en"} or {"tags":["x"]}.                          *)
JsonLength(metadata) ==
    IF metadata = None THEN 2
    ELSE IF DOMAIN Get(metadata) = {"category"} THEN 16
    ELSE IF DOMAIN Get(metadata) = {"category", "lang"} THEN 28
    ELSE 14

RECURSIVE Sum(_, _)
Sum(f, S) == IF S = {} THEN 0 ELSE LET x == CHOOSE y \in S : TRUE IN f[x] + Sum(f, S \ {x})

(* C24: getStats returns documentCount = size(), embeddingDimensions =      *)
(* getEmbeddingDimensions(), null for an empty table, and                   *)
(* estimatedMemoryUsage = the sum over the stored documents of              *)
(* 8 * len(embedding) + 2 * len(content) + 2 * len(JSON of metadata) + 100, *)
(* 0 for an empty table; and it does not modify the table.  Every content   *)
(* stored here ("text a", "text b", "text c") has 6 characters.             *)
C24_GetStats ==
    [][\A p \in DOMAIN calls :
           (Acts(p) /\ calls'[p].op = "getStats") =>
               /\ calls'[p].pc = "done"
               /\ calls'[p].outcome = "ok"
               /\ documents' = documents
               /\ calls'[p].result.documentCount = Len(documents)
               /\ calls'[p].result.embeddingDimensions
                      = IF documents = <<>> THEN None
                        ELSE Some(Len(documents[1].embedding))
               /\ calls'[p].result.estimatedMemoryUsage
                      = Sum([k \in DOMAIN documents |->
                                8 * Len(documents[k].embedding)
                                + 2 * 6
                                + 2 * JsonLength(documents[k].metadata)
                                + 100],
                            DOMAIN documents)
               /\ documents = <<>> => calls'[p].result.estimatedMemoryUsage = 0]_vars

(* getStats returned on a table of three documents with and without         *)
(* metadata.                                                                *)
C24_Witness ==
    \E p \in DOMAIN calls :
        /\ calls[p].pc = "done"
        /\ calls[p].op = "getStats"
        /\ calls[p].result.documentCount = 3
        /\ calls[p].result.embeddingDimensions = Some(2)
        /\ \E k \in DOMAIN documents : documents[k].metadata = None
        /\ \E k \in DOMAIN documents : documents[k].metadata # None
        /\ calls[p].result.estimatedMemoryUsage = 3 * (16 + 12 + 100) + 2 * (2 + 16 + 28)

SameScore(a, b) == ScoreGE(a, b) /\ ScoreGE(b, a)
AllZero(vec) == \A k \in DOMAIN vec : vec[k] = 0

(* C25: cosine scoring in search.  After a search by cosine, a returned      *)
(* document whose embedding is the non-zero query vector has score 1, and    *)
(* every stored document with that embedding is returned when the threshold *)
(* is at most 1; the result is ordered by non-increasing score; a returned   *)
(* document orthogonal to the query has score 0 and none is returned under a *)
(* threshold above 0; and a returned document has score 0 when the query or  *)
(* its embedding is all zeros.                                               *)
C25_CosineScoring ==
    \A p \in DOMAIN calls :
        Found(p, "search") /\ OrElse(calls[p].options.similarityMethod, "cosine") = "cosine" =>
            \A query \in {QueryEmbeddingOf(calls[p])},
               threshold \in {OrElse(calls[p].options.threshold, Number(0, 1))} :
                /\ \A i \in DOMAIN calls[p].result :
                       \A hit \in {calls[p].result[i]} :
                           /\ hit.document.embedding = query /\ ~AllZero(query)
                                  => SameScore(hit.similarity, Number(1, 1))
                           /\ dotFrom(query, hit.document.embedding, Len(query)) = 0
                                  => /\ SameScore(hit.similarity, Number(0, 1))
                                     /\ ScoreGE(Number(0, 1), threshold)
                           /\ AllZero(query) \/ AllZero(hit.document.embedding)
                                  => SameScore(hit.similarity, Number(0, 1))
                /\ \A k \in DOMAIN documents :
                       /\ documents[k].embedding = query
                       /\ ~AllZero(query)
                       /\ ScoreGE(Number(1, 1), threshold)
                       => \E i \in DOMAIN calls[p].result :
                              calls[p].result[i].document = documents[k]
                /\ NonIncreasing(calls[p].result)

(* C26: order of the search steps.  A finished search whose query is the     *)
(* empty vector has failed with 'Query embedding must be provided and        *)
(* non-empty', and a finished search whose query is a text has called the    *)
(* embedding provider exactly once (where the store has a provider), in      *)
(* every table state, the empty table included.                              *)
C26_QueryResolvedFirst ==
    \A p \in DOMAIN calls :
        calls[p].pc = "done" /\ calls[p].op = "search" =>
            /\ calls[p].query = VectorQuery(<<>>) =>
                   /\ calls[p].outcome = "error"
                   /\ calls[p].error.msg = "Query embedding must be provided and non-empty"
            /\ calls[p].query.kind = "text" /\ config.openai =>
                   Len(EventsOf(calls[p], "embed")) = 1

(* The position in the table of the document id. *)
PositionOf(id) == CHOOSE k \in DOMAIN documents : documents[k].id = id

(* C27: tie order.  In the result of search, of two documents with equal    *)
(* score the one earlier in the table (the insertion order of the ids) comes *)
(* first; and the document findMostSimilar returns comes in the table before *)
(* every other document that shares its score, the top one.                  *)
C27_TieOrder ==
    \A p \in DOMAIN calls :
        /\ Found(p, "search") =>
               \A i, j \in DOMAIN calls[p].result :
                   /\ i < j
                   /\ SameScore(calls[p].result[i].similarity, calls[p].result[j].similarity)
                   => PositionOf(calls[p].result[i].document.id)
                          < PositionOf(calls[p].result[j].document.id)
        /\ Found(p, "findMostSimilar") /\ IsSome(calls[p].result) =>
               \A hit \in {Get(calls[p].result)}, asked \in {SearchOfFind(calls[p])} :
                   \A k \in Qualifying(asked) :
                       /\ ScoreGE(hit.similarity, ScoreOf(asked, documents[k]))
                       /\ ScoreGE(ScoreOf(asked, documents[k]), hit.similarity)
                              => PositionOf(hit.document.id) <= k

(* findMostSimilar for a non-zero query returned the first of two stored     *)
(* documents of equal score, 'b' added before 'a'.                           *)
C27_Witness ==
    \E p \in DOMAIN calls :
        /\ Found(p, "findMostSimilar")
        /\ Len(documents) = 2
        /\ documents[1].id = "b"
        /\ calls[p].result = Some([document |-> documents[1],
                                   similarity |-> ScoreOf(SearchOfFind(calls[p]),
                                                          documents[1])])
        /\ SameScore(ScoreOf(SearchOfFind(calls[p]), documents[1]),
                     ScoreOf(SearchOfFind(calls[p]), documents[2]))
        /\ ~AllZero(QueryEmbeddingOf(calls[p]))
(* C28: a scoring failure is local.  A search for a non-empty query vector   *)
(* on a table with documents returns without an error; its result holds the *)
(* documents whose embedding has the length of the query and whose score     *)
(* reaches the threshold, each with its score, all of them where the limit   *)
(* allows, whatever documents of another length stand before them; and it is *)
(* empty when no stored embedding has the length of the query.               *)
C28_ScoringFailureSkipped ==
    [][\A p \in DOMAIN calls :
          (/\ calls[p].pc = "idle" /\ Acts(p)
           /\ calls'[p].op = "search"
           /\ calls'[p].query.kind = "vector"
           /\ calls'[p].query.vector # <<>>
           /\ documents # <<>>) =>
              \A call \in {calls'[p]} :
                  /\ call.pc = "done"
                  /\ call.outcome = "ok"
                  /\ ListsQualifying(call, call.result)
                  /\ Len(call.result)
                         = Min2(OrElse(call.options.limit, DefaultLimit),
                                Cardinality(Qualifying(call)))
                  /\ (\A k \in DOMAIN documents :
                          Len(documents[k].embedding) # Len(call.query.vector))
                         => call.result = <<>>]_vars

(* A search for [1] returned 'b' alone from a table whose first document,    *)
(* 'a', has an embedding of length 2.                                        *)
C28_Witness ==
    \E p \in DOMAIN calls :
        /\ Found(p, "search")
        /\ calls[p].query = VectorQuery(<<1>>)
        /\ Len(documents) = 2
        /\ documents[1].id = "a"
        /\ Len(documents[1].embedding) = 2
        /\ Len(documents[2].embedding) = 1
        /\ Len(calls[p].result) = 1
        /\ calls[p].result[1].document = documents[2]

(* C29: addDocument pre-validates like addDocuments before any embedding    *)
(* call.  A call with createEmbedding set for a document that brings no      *)
(* embedding and has an empty id or an empty content fails in its first      *)
(* step, with no provider call made and the table as it was.                 *)
C29_SinglePreValidation ==
    [][\A p \in DOMAIN calls :
          (/\ calls[p].pc = "idle" /\ Acts(p)
           /\ calls'[p].op = "addDocument"
           /\ OrElse(calls'[p].options.createEmbedding, FALSE)
           /\ ~IsSome(calls'[p].document.embedding)
           /\ (calls'[p].document.id = "" \/ calls'[p].document.content = "")) =>
              /\ calls'[p].pc = "done"
              /\ calls'[p].outcome = "error"
              /\ calls'[p].events = <<>>
              /\ documents' = documents]_vars

(* C30: every stored document is valid.  In every state each document of    *)
(* the table has a non-empty id and a non-empty embedding whose components   *)
(* are all finite, whether addDocument, updateDocument or addDocuments wrote *)
(* it, with an embedding of the caller or one the provider returned.         *)
C30_StoredDocumentsValid ==
    \A k \in DOMAIN documents :
        /\ documents[k].id # ""
        /\ Len(documents[k].embedding) > 0
        /\ ~hasInvalidValues(documents[k].embedding)

(* C31: VectorStore.addDocuments rejects a batch as a whole.  In the step   *)
(* by which a call ends with an error the table stays as it was, so none of *)
(* the documents of the batch has been written.                             *)
C31_SyncAllOrNothing ==
    [][\A p \in DOMAIN calls :
          (/\ calls[p].pc = "idle" /\ Acts(p)
           /\ calls'[p].op = "VectorStore.addDocuments"
           /\ calls'[p].outcome = "error") =>
              documents' = documents]_vars

(* The embedding is asked of the provider: the call is for a document that  *)
(* brings none (updateDocument: whether or not its id is in the table, as   *)
(* told by presentOnly) or for a text query on a table with documents.      *)
NeedsProvider(table, call, presentOnly) ==
    \/ /\ call.op = "addDocument"
       /\ OrElse(call.options.createEmbedding, FALSE)
       /\ ~IsSome(call.document.embedding)
    \/ /\ call.op = "updateDocument"
       /\ OrElse(call.options.createEmbedding, FALSE)
       /\ ~IsSome(call.document.embedding)
       /\ presentOnly => has(table, call.document.id)
    \/ /\ call.op = "addDocuments"
       /\ OrElse(call.options.createEmbedding, FALSE)
       /\ \E k \in DOMAIN call.documents : ~IsSome(call.documents[k].embedding)
    \/ /\ call.op \in {"search", "searchWithPagination"}
       /\ call.query.kind = "text"
       /\ table # <<>>

(* The same call on a store that has a provider. *)
WithProvider(table, cfg, call, now) ==
    LET provided == [cfg EXCEPT !.openai = TRUE]
    IN IF call.op = "addDocument"
       THEN addDocumentBegin(table, provided, call.document, call.options, now)
       ELSE IF call.op = "updateDocument"
       THEN updateDocumentBegin(table, provided, call.document, call.options, now)
       ELSE IF call.op = "addDocuments"
       THEN addDocumentsBegin(table, provided, call.documents, call.options, now)
       ELSE [call |-> searchBegin(call.op, table, provided, call.query, call.options),
             table |-> table]

ProviderOps == {"addDocument", "updateDocument", "addDocuments", "search",
                "searchWithPagination"}

MissingProvider(presentOnly) ==
    \A p \in DOMAIN calls :
        (/\ calls[p].pc = "idle" /\ Acts(p)
         /\ ~config.openai
         /\ calls'[p].op \in ProviderOps) =>
            IF NeedsProvider(documents, calls'[p], presentOnly)
            THEN /\ calls'[p].pc = "done"
                 /\ calls'[p].outcome = "error"
                 /\ documents' = documents
            ELSE /\ calls'[p].pc = "done"
                 /\ calls'[p] = WithProvider(documents, config, calls'[p], clock).call
                 /\ documents' = WithProvider(documents, config, calls'[p], clock).table

C33_Termination ==
    \A p \in {"p"} : (calls[p].pc \in {"chunk", "await"}) ~> (calls[p].pc = "done")

(* C34: the configuration invariant.  In every state the default batch size *)
(* is positive and the default batch delay is not negative, whatever the     *)
(* options of the constructor and the calls of the setters; a call of        *)
(* setDefaultBatchSize with n <= 0 or of setDefaultBatchDelay with d < 0     *)
(* has thrown and the getter returns the value from before the call; after   *)
(* any other call of these setters the getter returns the value passed.      *)
C34_ConfigurationInvariant ==
    /\ getDefaultBatchSize(config) > 0
    /\ getDefaultBatchDelay(config) >= 0
    /\ \A p \in DOMAIN calls :
           /\ (calls[p].pc = "done" /\ calls[p].op = "setDefaultBatchSize") =>
                  IF calls[p].value <= 0
                  THEN /\ calls[p].outcome = "error"
                       /\ getDefaultBatchSize(config) = calls[p].before
                  ELSE /\ calls[p].outcome = "ok"
                       /\ getDefaultBatchSize(config) = calls[p].value
           /\ (calls[p].pc = "done" /\ calls[p].op = "setDefaultBatchDelay") =>
                  IF calls[p].value < 0
                  THEN /\ calls[p].outcome = "error"
                       /\ getDefaultBatchDelay(config) = calls[p].before
                  ELSE /\ calls[p].outcome = "ok"
                       /\ getDefaultBatchDelay(config) = calls[p].value

(* The call without its onProgress: the option dropped, the calls of        *)
(* onProgress left out of its events.                                       *)
NotProgress(event) == event.type # "progress"

PlainPath(call) ==
    [call EXCEPT !.options.onProgress = FALSE, !.events = SelectSeq(@, NotProgress)]

(* The provider's answer that took the call from before to after. *)
AnswerBetween(before, after) ==
    LET event == after.events[Len(before.events) + 1]
    IN IF event.type = "failure" THEN ProviderFailure ELSE [ok |-> TRUE, data |-> event.data]

(* What the plain path does in the place of a step of the progress path:    *)
(* the same beginning, or the same answer given to the same call.           *)
PlainStep(table, cfg, before, after, now) ==
    IF before.pc = "idle"
    THEN addDocumentsBegin(table, cfg, after.documents,
                           [after.options EXCEPT !.onProgress = FALSE], now)
    ELSE addDocumentsResume(table, cfg, PlainPath(before), AnswerBetween(before, after), now)

C36_NoResurrection ==
    [][\A p \in DOMAIN calls :
          (/\ calls[p].pc = "await"
           /\ calls[p].op = "updateDocument"
           /\ calls'[p] # calls[p]
           /\ ~has(documents, calls[p].document.id)) =>
              /\ calls'[p].pc = "done"
              /\ calls'[p].outcome = "error"
              /\ ~calls'[p].result
              /\ ~has(documents', calls[p].document.id)
              /\ documents' = documents]_vars

(* The provider answered with a vector fit for the table an update of 'a',  *)
(* removed in the meantime while 'b' stayed; the update threw and 'a' is     *)
(* absent.                                                                   *)
C36_Witness ==
    \E p \in DOMAIN calls :
        /\ Threw(p)
        /\ calls[p].op = "updateDocument"
        /\ calls[p].document.id = "a"
        /\ Len(calls[p].events) = 2
        /\ calls[p].events[2].type = "response"
        /\ Len(calls[p].events[2].data) = 1
        /\ calls[p].error.msg = "TypeError: Cannot read properties of undefined"
        /\ ~has(documents, "a")
        /\ has(documents, "b")

hasMetadata(doc) == IsSome(doc.metadata)

(* C37: an empty metadata filter is not the same as no filter.  search and  *)
(* searchWithPagination with the filter {} return the documents of the      *)
(* table that have a metadata object, in table order, and none that has not, *)
(* and so does getDocumentsByMetadata({}); the same search with no filter    *)
(* returns every document of the table.  (All documents score alike and the  *)
(* limit is above their number.)                                             *)
C37_EmptyFilter ==
    \A p \in DOMAIN calls :
        /\ (/\ \/ Found(p, "search")
               \/ Found(p, "searchWithPagination")
            /\ calls[p].options.metadataFilter = Some(EmptyObject)) =>
               [i \in DOMAIN DataOf(calls[p]) |-> DataOf(calls[p])[i].document]
                   = SelectSeq(documents, hasMetadata)
        /\ (/\ \/ Found(p, "search")
               \/ Found(p, "searchWithPagination")
            /\ calls[p].options.metadataFilter = None) =>
               [i \in DOMAIN DataOf(calls[p]) |-> DataOf(calls[p])[i].document] = documents
        /\ (/\ Found(p, "getDocumentsByMetadata")
            /\ calls[p].filter = EmptyObject) =>
               calls[p].result = SelectSeq(documents, hasMetadata)

(* A search with the filter {} returned two of three documents: the one     *)
(* whose metadata is {} and the one with a category, not the one without     *)
(* metadata.                                                                 *)
C37_Witness ==
    \E p \in DOMAIN calls :
        /\ Found(p, "search")
        /\ calls[p].options.metadataFilter = Some(EmptyObject)
        /\ Len(documents) = 3
        /\ Len(calls[p].result) = 2
        /\ \E k \in DOMAIN documents : ~hasMetadata(documents[k])
        /\ \E i \in DOMAIN calls[p].result :
               calls[p].result[i].document.metadata = Some(EmptyObject)
        /\ \E i \in DOMAIN calls[p].result :
               calls[p].result[i].document.metadata = Some([category |-> "g"])

(* The ids of a batch in the order of writing: the documents that bring     *)
(* their embedding, then those whose embedding is generated, each group in   *)
(* the order of the input.                                                   *)
WriteOrder(call) ==
    LET ordered == SelectSeq(call.documents, bringsEmbedding)
                       \o SelectSeq(call.documents, needsEmbedding)
    IN [k \in DOMAIN ordered |-> ordered[k].id]

RankIn(ids, id) == CHOOSE k \in DOMAIN ids : ids[k] = id

(* C38: the write order of a mixed batch.  The step by which an             *)
(* addDocuments with createEmbedding succeeds appends to the table the       *)
(* documents that brought their embedding, in input order, and then those    *)
(* whose embedding was generated, in input order: getAllDocuments lists      *)
(* them so after the documents it listed before, a search puts those of      *)
(* them that score alike in that order, and on a table that was empty the    *)
(* first of them gives the dimension.                                        *)
C38_WriteOrder ==
    [][\A p \in DOMAIN calls :
          (/\ Acts(p)
           /\ calls'[p].op = "addDocuments"
           /\ createEmbeddingOf(calls'[p])
           /\ calls'[p].pc = "done" /\ calls'[p].outcome = "ok"
           /\ calls'[p].documents # <<>>) =>
              \A ids \in {WriteOrder(calls'[p])}, n \in {Len(documents)} :
                  /\ Len(getAllDocuments(documents')) = n + Len(ids)
                  /\ SubSeq(getAllDocuments(documents'), 1, n) = getAllDocuments(documents)
                  /\ \A k \in DOMAIN ids : getAllDocuments(documents')[n + k].id = ids[k]
                  /\ n = 0 => /\ documents'[1].id = ids[1]
                              /\ getEmbeddingDimensions(documents')
                                     = Some(Len(documents'[1].embedding))
                  /\ \A results \in {searchResults(documents', documents'[n + 1].embedding,
                                                   PlainSearch)} :
                     \A i, j \in DOMAIN results :
                         (/\ i < j
                          /\ SameScore(results[i].similarity, results[j].similarity)
                          /\ \E k \in DOMAIN ids : ids[k] = results[i].document.id
                          /\ \E k \in DOMAIN ids : ids[k] = results[j].document.id)
                         => RankIn(ids, results[i].document.id)
                                < RankIn(ids, results[j].document.id)]_vars

(* The batch ['b' to embed, 'a' with its embedding] was written to the      *)
(* empty table: 'a' first, then 'b'.                                         *)
C38_Witness ==
    \E p \in DOMAIN calls :
        /\ Embedding(p) /\ Succeeded(p)
        /\ calls[p].documents = <<Needs("b"), Brings("a", <<1>>)>>
        /\ Len(documents) = 2
        /\ documents[1].id = "a"
        /\ documents[2].id = "b"

ValidBatch(docs) ==
    /\ docs # <<>>
    /\ \A k \in DOMAIN docs :
           /\ bringsEmbedding(docs[k])
           /\ ~IsError(validateDocument(docs[k]))
           /\ Len(Get(docs[k].embedding)) = Len(Get(docs[1].embedding))
           /\ \A j \in DOMAIN docs : j # k => docs[j].id # docs[k].id

(* C39: clear() resets the table.  The step of clear() leaves size() 0,     *)
(* isEmpty() true, getEmbeddingDimensions() null and every id absent, and    *)
(* the embedding model, default batch size and default batch delay as they   *)
(* were; and on the table so emptied an addDocument of a valid document, or  *)
(* an addDocuments of valid documents of one length, is accepted whatever    *)
(* that length is, which is then the dimension of the table.                 *)
C39_ClearResets ==
    [][\A p \in DOMAIN calls :
          /\ (Acts(p) /\ calls'[p].op = "clear") =>
                 /\ size(documents') = 0
                 /\ isEmpty(documents')
                 /\ getEmbeddingDimensions(documents') = None
                 /\ \A id \in Ids : ~hasDocument(documents', id)
                                    /\ getDocument(documents', id) = None
                 /\ getEmbeddingModel(config') = getEmbeddingModel(config)
                 /\ getDefaultBatchSize(config') = getDefaultBatchSize(config)
                 /\ getDefaultBatchDelay(config') = getDefaultBatchDelay(config)
          /\ (/\ Acts(p) /\ isEmpty(documents)
              /\ calls'[p].op = "addDocument"
              /\ bringsEmbedding(calls'[p].document)
              /\ ~IsError(validateDocument(calls'[p].document))) =>
                 /\ calls'[p].pc = "done" /\ calls'[p].outcome = "ok"
                 /\ size(documents') = 1
                 /\ getEmbeddingDimensions(documents')
                        = Some(Len(Get(calls'[p].document.embedding)))
          /\ (/\ Acts(p) /\ isEmpty(documents)
              /\ calls'[p].op = "addDocuments"
              /\ ValidBatch(calls'[p].documents)) =>
                 /\ calls'[p].pc = "done" /\ calls'[p].outcome = "ok"
                 /\ size(documents') = Len(calls'[p].documents)
                 /\ getEmbeddingDimensions(documents')
                        = Some(Len(Get(calls'[p].documents[1].embedding)))]_vars

(* clear() has returned on a store whose three defaults had been set: the   *)
(* table is empty and the defaults are the ones set.                         *)
C39_Witness ==
    \E p \in DOMAIN calls :
        /\ Succeeded(p)
        /\ calls[p].op = "clear"
        /\ isEmpty(documents)
        /\ getEmbeddingDimensions(documents) = None
        /\ getDefaultBatchSize(config) = 2
        /\ getDefaultBatchDelay(config) = 0
        /\ getEmbeddingModel(config) = "m"

(* C40: a provider that returns too few vectors.  When an addDocuments      *)
(* with createEmbedding ends having got fewer vectors in all than it had     *)
(* texts to embed, it ends with an error and the table stays as it was; a    *)
(* call that succeeds has added as many documents as its input holds; and    *)
(* every document of the table has an embedding.                             *)
C40_TooFewVectors ==
    [][\A p \in DOMAIN calls :
          (/\ Acts(p)
           /\ calls'[p].op = "addDocuments"
           /\ createEmbeddingOf(calls'[p])
           /\ calls'[p].pc = "done") =>
              /\ Len(calls'[p].generated) < Len(calls'[p].needing) =>
                     /\ calls'[p].outcome = "error"
                     /\ documents' = documents
              /\ calls'[p].outcome = "ok" =>
                     size(documents') = size(documents) + Len(calls'[p].documents)
              /\ \A k \in DOMAIN documents' : Len(documents'[k].embedding) > 0]_vars

(* Two chunks were asked for and both answered, the second without its      *)
(* vector: the call threw on reading the missing embedding and the table     *)
(* holds what it held.                                                       *)
C40_Witness ==
    \E p \in DOMAIN calls :
        /\ Embedding(p) /\ Threw(p)
        /\ Len(EventsOf(calls[p], "embed")) = 2
        /\ Len(EventsOf(calls[p], "response")) = 2
        /\ EventsOf(calls[p], "response")[2].data = <<>>
        /\ Len(calls[p].generated) = Len(calls[p].needing) - 1
        /\ calls[p].error.msg = "TypeError: Cannot read properties of undefined"
        /\ Len(documents) > 0

=============================================================================
